---- MODULE Spec2Model ----
(***************************************************************************)
(* Model of the tps-server networking core: the reliable send and receive  *)
(* channels (src/src/channel/reliable.rs), the unreliable send channel     *)
(* (src/src/channel/unreliable.rs) and the per-client connection           *)
(* UnityClient (src/src/connection.rs).                                    *)
(*                                                                         *)
(* Objects are records, methods are operators from (object, arguments) to  *)
(* the new object and the returned value.  Time is a Duration counted in   *)
(* abstract units.  A message payload (Bytes) is a record [data, len]: its *)
(* content and its length in bytes.  Option<T> is a sequence of length 0   *)
(* (None) or 1 (Some).  A u32 bit mask is the set of the positions of its  *)
(* bits that are 1.                                                        *)
(***************************************************************************)
EXTENDS Integers, Sequences, FiniteSets, TLC

VARIABLES
    overflow_checks, \* build profile: TRUE = arithmetic overflow panics, FALSE = it wraps
    panicked,        \* the thread owning the objects has panicked
    sc,              \* a SendChannelReliable
    rc,              \* a ReceiveChannelReliable
    now,             \* the current_time the caller passes to the channels
    net,             \* SmallReliable packets in flight between sc and rc
    sent_log,        \* payloads accepted by sc.send_message, in order
    recv_log,        \* (id, payload) returned by rc.receive_message, in order
    ret,             \* the last call and what it returned
    client,          \* a UnityClient
    server,          \* a TransportServer
    validators,      \* the authenticate_player tasks of the pending clients
    transport,       \* a ServerTransport: its maps, its channels and what it wrote to the socket
    uc,              \* a SendChannelUnreliable
    denaria,         \* the DenariaServer of each session worker
    pc,              \* where the dispatcher and each worker are in the call they are making
    hist             \* history: what the calls on the dispatcher have shown so far

vars == <<overflow_checks, panicked, sc, rc, now, net, sent_log, recv_log, ret,
          client, server, validators, transport, uc, denaria, pc, hist>>

----------------------------------------------------------------------------
(* Program constants *)

MAX_MESSAGES_LENGTH == 1200

U16 == 65536

----------------------------------------------------------------------------
(* Bounds of the model *)

MaxMessages == 3      \* send_message calls accepted per channel
MaxTime == 5          \* the clock stops advancing here
MaxPackets == 4       \* reliable packets emitted per channel

ResendTime == 2       \* resend_time of the reliable send channel
SendMaxMemory == 3    \* max_memory_usage_bytes of the reliable send channel
RecvMaxMemory == 3    \* max_memory_usage_bytes of the reliable receive channel
MaxId == 3            \* largest message id offered to a receive channel

NetMaxMessages == 3   \* the same bounds, for the channel pair with its network
NetMaxTime == 1
NetMaxPackets == 2
NetResendTime == 1

WrapMaxMessages == 3  \* the same bounds, for the channel about to wrap its sequence id
WrapMaxPackets == 3
WrapMaxTime == 2

ConnBytesPerTick == 2     \* available_bytes_per_tick of the connection
ConnUnreliableMemory == 2 \* max_memory_usage_bytes of its unreliable channels
ConnReliableMemory == 2   \* max_memory_usage_bytes of its reliable channels
ConnMaxMessages == 2      \* reliable send_message calls accepted per connection
ConnMaxTime == 1          \* the connection clock stops advancing here

MaxPending == 2       \* capacity of the pending table of the transport server
SrvMaxClients == 2    \* max_clients of the transport server's configuration
SrvMaxTime == 11000   \* the transport server's clock stops advancing here
ExpMaxTime == 16000   \* the same, for the runs about expiry and timeout
KaMaxTime == 500      \* the same, for the runs about keep-alives
DspMaxTime == 11000   \* the same, for the runs of the dispatcher
MaxQueue == 2         \* messages waiting in one channel, in either direction
MaxSessions == 2      \* sessions created in one run

----------------------------------------------------------------------------
(* Helpers *)

None == <<>>
Some(x) == <<x>>

EmptyMap == [k \in {} |-> 0]

Min(S) == CHOOSE x \in S : \A y \in S : x <= y
Max(S) == CHOOSE x \in S : \A y \in S : x >= y

\* sum of the values of a function
RECURSIVE Sum(_)
Sum(f) ==
    IF DOMAIN f = {} THEN 0
    ELSE LET k == CHOOSE k \in DOMAIN f : TRUE
         IN f[k] + Sum([j \in DOMAIN f \ {k} |-> f[j]])

Remove(f, k) == [j \in DOMAIN f \ {k} |-> f[j]]
Insert(f, k, v) == [j \in DOMAIN f \cup {k} |-> IF j = k THEN v ELSE f[j]]

varint_len(v) ==
    IF v <= 63 THEN 1
    ELSE IF v <= 16383 THEN 2
    ELSE IF v <= 1073741823 THEN 4
    ELSE 8

----------------------------------------------------------------------------
(* SendChannelReliable *)

SendChannelReliable_new(channel_id, resend_time, max_memory_usage_bytes) ==
    [channel_id |-> channel_id,
     unacked_messages |-> EmptyMap,
     next_package_sequence_id |-> 0,
     next_message_id |-> 0,
     resend_time |-> resend_time,
     max_memory_usage_bytes |-> max_memory_usage_bytes,
     memory_usage_bytes |-> 0]

available_memory(ch) == ch.max_memory_usage_bytes - ch.memory_usage_bytes

can_send_message(ch, size_bytes) ==
    size_bytes + ch.memory_usage_bytes <= ch.max_memory_usage_bytes

send_message_OffByOne(ch, message) ==
    IF ch.memory_usage_bytes + message.len >= ch.max_memory_usage_bytes
    THEN [ch |-> ch, res |-> "ReliableChannelMaxMemoryReached"]
    ELSE [ch |-> [ch EXCEPT
                    !.memory_usage_bytes = @ + message.len,
                    !.unacked_messages =
                        Insert(@, ch.next_message_id,
                               [message |-> message, last_sent |-> None]),
                    !.next_message_id = @ + 1],
          res |-> "Ok"]

send_message(ch, message) ==
    IF ch.memory_usage_bytes + message.len > ch.max_memory_usage_bytes
    THEN [ch |-> ch, res |-> "ReliableChannelMaxMemoryReached"]
    ELSE [ch |-> [ch EXCEPT
                    !.memory_usage_bytes = @ + message.len,
                    !.unacked_messages =
                        Insert(@, ch.next_message_id,
                               [message |-> message, last_sent |-> None]),
                    !.next_message_id = @ + 1],
          res |-> "Ok"]

process_message_ack_KeepsMemory(ch, message_id) ==
    IF message_id \in DOMAIN ch.unacked_messages
    THEN [ch EXCEPT !.unacked_messages = Remove(@, message_id)]
    ELSE ch

process_message_ack(ch, message_id) ==
    IF message_id \in DOMAIN ch.unacked_messages
    THEN [ch EXCEPT
            !.unacked_messages = Remove(@, message_id),
            !.memory_usage_bytes = @ - ch.unacked_messages[message_id].message.len]
    ELSE ch

SmallReliable(channel_id, sequence_id, messages) ==
    [kind |-> "SmallReliable",
     channel_id |-> channel_id,
     packet_type |-> 0,
     packet_process_time |-> 0,
     sequence_id |-> sequence_id,
     acked_seq_id |-> U16 - 1,
     acked_mask |-> {},
     messages |-> messages]

\* next_package_sequence_id += 1 on a u16
IncSequenceId(st, oc) ==
    IF st.ch.next_package_sequence_id + 1 >= U16
    THEN IF oc THEN [st EXCEPT !.panic = TRUE]
         ELSE [st EXCEPT !.ch.next_package_sequence_id = 0]
    ELSE [st EXCEPT !.ch.next_package_sequence_id = @ + 1]

\* pushes the packet and keeps counting from the size it had
FlushSmallMessages_KeepingCount(st, oc) ==
    IncSequenceId(
        [st EXCEPT
           !.packets = Append(@, SmallReliable(st.ch.channel_id,
                                               st.ch.next_package_sequence_id,
                                               st.small_messages)),
           !.small_messages = <<>>],
        oc)

\* the packet pushed when the accumulator cannot take the next message
FlushSmallMessages(st, oc) ==
    IncSequenceId(
        [st EXCEPT
           !.packets = Append(@, SmallReliable(st.ch.channel_id,
                                               st.ch.next_package_sequence_id,
                                               st.small_messages)),
           !.small_messages = <<>>,
           !.small_messages_bytes = 0],
        oc)

TooEarlyToResend_Inclusive(last_sent, current_time, resend_time) ==
    last_sent # None /\ current_time - last_sent[1] <= resend_time

\* the resend gate: the message was sent less than resend_time ago
TooEarlyToResend(last_sent, current_time, resend_time) ==
    last_sent # None /\ current_time - last_sent[1] < resend_time

\* the for loop over unacked_messages.iter_mut(), in ascending message id
RECURSIVE ReliableLoop(_, _, _, _)
ReliableLoop(ids, st, current_time, oc) ==
    IF ids = {} \/ st.panic THEN st
    ELSE
      LET message_id == Min(ids)
          rest == ids \ {message_id}
          um == st.ch.unacked_messages[message_id]
          len == um.message.len
      IN
      IF st.available_bytes < len
      THEN ReliableLoop(rest, st, current_time, oc)
      ELSE IF um.last_sent # None /\ current_time < um.last_sent[1]
      THEN [st EXCEPT !.panic = TRUE]      \* Duration subtraction overflow
      ELSE IF TooEarlyToResend(um.last_sent, current_time, st.ch.resend_time)
      THEN ReliableLoop(rest, st, current_time, oc)
      ELSE
        LET serialized_size == len + varint_len(len) + varint_len(message_id)
            st1 == [st EXCEPT !.available_bytes = @ - len]
            st2 == IF st1.small_messages_bytes + serialized_size > MAX_MESSAGES_LENGTH
                   THEN FlushSmallMessages(st1, oc)
                   ELSE st1
            st3 == [st2 EXCEPT
                      !.small_messages_bytes = @ + serialized_size,
                      !.small_messages = Append(@, <<message_id, um.message>>),
                      !.ch.unacked_messages[message_id].last_sent = Some(current_time)]
        IN IF st2.panic THEN st2
           ELSE ReliableLoop(rest, st3, current_time, oc)

\* returns [ch, available_bytes, packets, panic]
get_packets_to_send(ch, available_bytes, current_time, oc) ==
    LET st0 == [ch |-> ch, available_bytes |-> available_bytes, packets |-> <<>>,
                small_messages |-> <<>>, small_messages_bytes |-> 0, panic |-> FALSE]
    IN
    IF DOMAIN ch.unacked_messages = {} THEN st0
    ELSE
      LET st1 == ReliableLoop(DOMAIN ch.unacked_messages, st0, current_time, oc)
      IN IF st1.panic THEN st1
         ELSE IF st1.small_messages # <<>>
         THEN FlushSmallMessages(st1, oc)
         ELSE st1

----------------------------------------------------------------------------
(* ReceiveChannelReliable *)

ReceiveChannelReliable_new(max_memory_usage_bytes) ==
    [messages |-> EmptyMap,
     oldest_pending_message_id |-> 0,
     memory_usage_bytes |-> 0,
     max_memory_usage_bytes |-> max_memory_usage_bytes]

process_message_KeepsOld(ch, message, message_id) ==
    IF message_id \notin DOMAIN ch.messages
    THEN IF ch.memory_usage_bytes + message.len > ch.max_memory_usage_bytes
         THEN [ch |-> ch, res |-> "ReliableChannelMaxMemoryReached"]
         ELSE [ch |-> [ch EXCEPT
                         !.memory_usage_bytes = @ + message.len,
                         !.messages = Insert(@, message_id, message)],
               res |-> "Ok"]
    ELSE [ch |-> ch, res |-> "Ok"]

process_message(ch, message, message_id) ==
    IF message_id < ch.oldest_pending_message_id
    THEN [ch |-> ch, res |-> "Ok"]
    ELSE IF message_id \notin DOMAIN ch.messages
    THEN IF ch.memory_usage_bytes + message.len > ch.max_memory_usage_bytes
         THEN [ch |-> ch, res |-> "ReliableChannelMaxMemoryReached"]
         ELSE [ch |-> [ch EXCEPT
                         !.memory_usage_bytes = @ + message.len,
                         !.messages = Insert(@, message_id, message)],
               res |-> "Ok"]
    ELSE [ch |-> ch, res |-> "Ok"]

\* delivers the lowest buffered id, whatever the expected one
receive_message_SkipsGap(ch) ==
    IF DOMAIN ch.messages = {}
    THEN [ch |-> ch, res |-> None]
    ELSE LET id == Min(DOMAIN ch.messages)
         IN [ch |-> [ch EXCEPT
                       !.messages = Remove(@, id),
                       !.oldest_pending_message_id = id + 1,
                       !.memory_usage_bytes = @ - ch.messages[id].len],
             res |-> Some(ch.messages[id])]

receive_message_KeepsMemory(ch) ==
    IF ch.oldest_pending_message_id \notin DOMAIN ch.messages
    THEN [ch |-> ch, res |-> None]
    ELSE [ch |-> [ch EXCEPT
                    !.messages = Remove(@, ch.oldest_pending_message_id),
                    !.oldest_pending_message_id = @ + 1],
          res |-> Some(ch.messages[ch.oldest_pending_message_id])]

receive_message(ch) ==
    IF ch.oldest_pending_message_id \notin DOMAIN ch.messages
    THEN [ch |-> ch, res |-> None]
    ELSE [ch |-> [ch EXCEPT
                    !.messages = Remove(@, ch.oldest_pending_message_id),
                    !.oldest_pending_message_id = @ + 1,
                    !.memory_usage_bytes =
                        @ - ch.messages[ch.oldest_pending_message_id].len],
          res |-> Some(ch.messages[ch.oldest_pending_message_id])]

----------------------------------------------------------------------------
(* SendChannelUnreliable, ReceiveChannelUnreliable *)

SendChannelUnreliable_new(channel_id, max_memory_usage_bytes) ==
    [channel_id |-> channel_id,
     unreliable_messages |-> <<>>,
     max_memory_usage_bytes |-> max_memory_usage_bytes,
     memory_usage_bytes |-> 0]

SmallUnreliable(channel_id, messages) ==
    [kind |-> "SmallUnreliable", channel_id |-> channel_id, messages |-> messages]

\* the while loop over unreliable_messages.pop_front()
RECURSIVE UnreliableLoop(_)
UnreliableLoop(st) ==
    IF st.ch.unreliable_messages = <<>> THEN st
    ELSE
      LET message == Head(st.ch.unreliable_messages)
          st1 == [st EXCEPT !.ch.unreliable_messages = Tail(@),
                            !.ch.memory_usage_bytes = @ - message.len]
      IN
      IF st1.available_bytes < message.len
      THEN UnreliableLoop(st1)
      ELSE
        LET serialized_size == message.len + varint_len(message.len)
            st2 == [st1 EXCEPT !.available_bytes = @ - message.len]
            st3 == IF st2.small_messages_bytes + serialized_size > MAX_MESSAGES_LENGTH
                   THEN [st2 EXCEPT
                           !.packets = Append(@, SmallUnreliable(st2.ch.channel_id,
                                                                 st2.small_messages)),
                           !.small_messages = <<>>,
                           !.small_messages_bytes = 0]
                   ELSE st2
        IN UnreliableLoop([st3 EXCEPT
                             !.small_messages_bytes = @ + serialized_size,
                             !.small_messages = Append(@, message)])

\* polls the queue with room for everything that waits in it
unreliable_get_packets_to_send_Unmetered(ch, available_bytes) ==
    LET st == UnreliableLoop([ch |-> ch,
                              available_bytes |-> available_bytes + ch.memory_usage_bytes,
                              packets |-> <<>>, small_messages |-> <<>>,
                              small_messages_bytes |-> 0])
    IN IF st.small_messages # <<>>
       THEN [st EXCEPT !.packets = Append(@, SmallUnreliable(st.ch.channel_id,
                                                             st.small_messages)),
                       !.small_messages = <<>>]
       ELSE st

\* returns [ch, available_bytes, packets]
unreliable_get_packets_to_send(ch, available_bytes) ==
    LET st == UnreliableLoop([ch |-> ch, available_bytes |-> available_bytes,
                              packets |-> <<>>, small_messages |-> <<>>,
                              small_messages_bytes |-> 0])
    IN IF st.small_messages # <<>>
       THEN [st EXCEPT !.packets = Append(@, SmallUnreliable(st.ch.channel_id,
                                                             st.small_messages)),
                       !.small_messages = <<>>]
       ELSE st

\* enqueues whatever the memory in use
unreliable_send_message_Uncapped(ch, message) ==
    [ch EXCEPT !.memory_usage_bytes = @ + message.len,
               !.unreliable_messages = Append(@, message)]

unreliable_send_message(ch, message) ==
    IF ch.memory_usage_bytes + message.len > ch.max_memory_usage_bytes
    THEN ch
    ELSE [ch EXCEPT !.memory_usage_bytes = @ + message.len,
                    !.unreliable_messages = Append(@, message)]

ReceiveChannelUnreliable_new(channel_id, max_memory_usage_bytes) ==
    [channel_id |-> channel_id,
     messages |-> <<>>,
     memory_usage_bytes |-> 0,
     max_memory_usage_bytes |-> max_memory_usage_bytes]

unreliable_process_message(ch, message) ==
    IF ch.memory_usage_bytes + message.len > ch.max_memory_usage_bytes
    THEN ch
    ELSE [ch EXCEPT !.memory_usage_bytes = @ + message.len,
                    !.messages = Append(@, message)]

unreliable_receive_message(ch) ==
    IF ch.messages # <<>>
    THEN [ch |-> [ch EXCEPT !.messages = Tail(@),
                            !.memory_usage_bytes = @ - Head(ch.messages).len],
          res |-> Some(Head(ch.messages))]
    ELSE [ch |-> ch, res |-> None]

----------------------------------------------------------------------------
(* The ack codec of UnityClient *)

Range(q) == {q[i] : i \in 1..Len(q)}

\* A u32 mask is the set of the positions (0..31) of its bits that are 1.
\* ack_mask & (1 << i) != 0
Bit(mask, i) == i \in mask

\* ack_mask |= 1 << i
SetBit(mask, i) == mask \cup {i}

\* seq_id = seq_id - 1 on a u16
DecSequenceId(st, oc) ==
    IF st.seq_id = 0
    THEN IF oc THEN [st EXCEPT !.panic = TRUE]
         ELSE [st EXCEPT !.seq_id = U16 - 1]
    ELSE [st EXCEPT !.seq_id = @ - 1]

\* for i in 0..32
RECURSIVE AckMaskLoop(_, _, _, _)
AckMaskLoop(i, st, pending_acks, oc) ==
    IF i = 32 \/ st.panic THEN st
    ELSE LET st1 == IF st.seq_id \in Range(pending_acks)
                    THEN [st EXCEPT !.ack_mask = SetBit(@, i)]
                    ELSE st
         IN AckMaskLoop(i + 1, DecSequenceId(st1, oc), pending_acks, oc)

\* returns [panic, res]: res is None or Some(<<anchor, mask>>)
create_acked_bytes(pending_acks, oc) ==
    IF pending_acks = <<>> THEN [panic |-> FALSE, res |-> None]
    ELSE LET last_pending_ack == pending_acks[Len(pending_acks)]
             st == AckMaskLoop(0, [seq_id |-> last_pending_ack, ack_mask |-> {},
                                   panic |-> FALSE], pending_acks, oc)
         IN IF st.panic THEN [panic |-> TRUE, res |-> None]
            ELSE [panic |-> FALSE, res |-> Some(<<last_pending_ack, st.ack_mask>>)]

RECURSIVE AckedLoop(_, _, _)
AckedLoop(i, ack_seq, ack_mask) ==
    IF i = 32 THEN <<>>
    ELSE IF Bit(ack_mask, i)
    THEN <<(ack_seq - i) % U16>> \o AckedLoop(i + 1, ack_seq, ack_mask)
    ELSE AckedLoop(i + 1, ack_seq, ack_mask)

get_acked_packet_ids(ack_seq, ack_mask) == AckedLoop(0, ack_seq, ack_mask)

\* position of the first element greater than sequence_id, or the length
InsertIndex(pending_acks, sequence_id) ==
    IF \E k \in 1..Len(pending_acks) : pending_acks[k] > sequence_id
    THEN Min({k \in 1..Len(pending_acks) : pending_acks[k] > sequence_id})
    ELSE Len(pending_acks) + 1

InsertAt(q, k, x) == SubSeq(q, 1, k - 1) \o <<x>> \o SubSeq(q, k, Len(q))

\* returns [pending_acks, new_ack_to_send, panic]
add_pending_ack(pending_acks, new_ack_to_send, sequence_id) ==
    IF pending_acks = <<>>
    THEN [pending_acks |-> pending_acks, new_ack_to_send |-> new_ack_to_send,
          panic |-> TRUE]                  \* pending_acks[0] on an empty VecDeque
    ELSE IF pending_acks[1] >= sequence_id \/ sequence_id \in Range(pending_acks)
    THEN [pending_acks |-> pending_acks, new_ack_to_send |-> new_ack_to_send,
          panic |-> FALSE]
    ELSE LET q == IF Len(pending_acks) >= 32 THEN Tail(pending_acks) ELSE pending_acks
         IN [pending_acks |-> InsertAt(q, InsertIndex(q, sequence_id), sequence_id),
             new_ack_to_send |-> TRUE,
             panic |-> FALSE]

----------------------------------------------------------------------------
(* UnityClient.  The statistics (stats, rtt) are write-only for the          *)
(* operations modelled and are left out.  ack_process_start_instant is an   *)
(* Instant of the wall clock: what elapsed() returns for it is an input of  *)
(* get_packets_to_send.                                                      *)

DISCARD_AFTER == 3

BUFFER_LEN == 1400

Connecting == [kind |-> "Connecting", reason |-> "", channel_id |-> 0]
Connected == [kind |-> "Connected", reason |-> "", channel_id |-> 0]
Disconnected(reason, channel_id) ==
    [kind |-> "Disconnected", reason |-> reason, channel_id |-> channel_id]

Ack(packet_process_time, acked_seq_id, acked_mask) ==
    [kind |-> "Ack", channel_id |-> 1, packet_type |-> 1,
     packet_process_time |-> packet_process_time, sequence_id |-> 0,
     acked_seq_id |-> acked_seq_id, acked_mask |-> acked_mask,
     end_posfix |-> 0]

\* from_channels: the send order names the unreliable channel twice
UnityClient_new(available_bytes_per_tick, unreliable_max_memory, resend_time, reliable_max_memory) ==
    [current_time |-> 0,
     sent_packets |-> EmptyMap,
     pending_acks |-> <<>>,
     new_ack_to_send |-> FALSE,
     channel_send_order |-> <<[kind |-> "Unreliable", channel_id |-> 1],
                              [kind |-> "Unreliable", channel_id |-> 0]>>,
     send_unreliable_channel |-> SendChannelUnreliable_new(0, unreliable_max_memory),
     receive_unreliable_channel |->
         ReceiveChannelUnreliable_new(0, unreliable_max_memory),
     send_reliable_channel |->
         SendChannelReliable_new(1, resend_time, reliable_max_memory),
     receive_reliable_channel |-> ReceiveChannelReliable_new(reliable_max_memory),
     available_bytes_per_tick |-> available_bytes_per_tick,
     connection_status |-> Connecting,
     player_id |-> ""]

is_connected(c) == c.connection_status.kind = "Connected"
is_connecting(c) == c.connection_status.kind = "Connecting"
is_disconnected(c) == c.connection_status.kind = "Disconnected"

disconnect_with_reason(c, reason, channel_id) ==
    IF ~is_disconnected(c)
    THEN [c EXCEPT !.connection_status = Disconnected(reason, channel_id)]
    ELSE c

\* without the is_disconnected guard
set_connected_Unguarded(c, player_id) ==
    [c EXCEPT !.connection_status = Connected, !.player_id = player_id]

set_connected(c, player_id) ==
    IF ~is_disconnected(c)
    THEN [c EXCEPT !.connection_status = Connected, !.player_id = player_id]
    ELSE c

set_connecting(c) ==
    IF ~is_disconnected(c)
    THEN [c EXCEPT !.connection_status = Connecting]
    ELSE c

disconnect(c) == disconnect_with_reason(c, "DisconnectedByClient", 0)

disconnect_due_to_transport(c) == disconnect_with_reason(c, "Transport", 0)

\* leaves a refused reliable message to the caller and the status as it is
UnityClient_send_message_KeepingStatus(c, channel_id, message) ==
    IF is_disconnected(c) THEN [c |-> c, panic |-> FALSE]
    ELSE IF channel_id = 0
    THEN [c |-> [c EXCEPT !.send_unreliable_channel =
                              unreliable_send_message(@, message)],
          panic |-> FALSE]
    ELSE IF channel_id = 1
    THEN [c |-> [c EXCEPT !.send_reliable_channel = send_message(@, message).ch],
          panic |-> FALSE]
    ELSE [c |-> c, panic |-> TRUE]

\* returns [c, panic]
UnityClient_send_message(c, channel_id, message) ==
    IF is_disconnected(c) THEN [c |-> c, panic |-> FALSE]
    ELSE IF channel_id = 0
    THEN [c |-> [c EXCEPT !.send_unreliable_channel =
                              unreliable_send_message(@, message)],
          panic |-> FALSE]
    ELSE IF channel_id = 1
    THEN LET r == send_message(c.send_reliable_channel, message)
         IN IF r.res # "Ok"
            THEN [c |-> disconnect_with_reason(c, "SendChannelError", channel_id),
                  panic |-> FALSE]
            ELSE [c |-> [c EXCEPT !.send_reliable_channel = r.ch], panic |-> FALSE]
    ELSE [c |-> c, panic |-> TRUE]

\* returns [c, res, panic]
UnityClient_receive_message(c, channel_id) ==
    IF is_disconnected(c) THEN [c |-> c, res |-> None, panic |-> FALSE]
    ELSE IF channel_id = 0
    THEN LET r == unreliable_receive_message(c.receive_unreliable_channel)
         IN [c |-> [c EXCEPT !.receive_unreliable_channel = r.ch],
             res |-> r.res, panic |-> FALSE]
    ELSE IF channel_id = 1
    THEN LET r == receive_message(c.receive_reliable_channel)
         IN [c |-> [c EXCEPT !.receive_reliable_channel = r.ch],
             res |-> r.res, panic |-> FALSE]
    ELSE [c |-> c, res |-> None, panic |-> TRUE]

\* the sent packets dropped by update: the oldest sequence ids, up to the
\* first one that is not yet DISCARD_AFTER old
RECURSIVE LostPackets(_, _, _)
LostPackets(sequences, sent_packets, current_time) ==
    IF sequences = {} THEN {}
    ELSE LET sequence == Min(sequences)
         IN IF current_time - sent_packets[sequence].sent_at >= DISCARD_AFTER
            THEN {sequence} \cup LostPackets(sequences \ {sequence}, sent_packets,
                                             current_time)
            ELSE {}

update(c, duration) ==
    LET current_time == c.current_time + duration
        lost_packets == LostPackets(DOMAIN c.sent_packets, c.sent_packets, current_time)
    IN [c EXCEPT !.current_time = current_time,
                 !.sent_packets = [q \in DOMAIN c.sent_packets \ lost_packets |->
                                     c.sent_packets[q]]]

RECURSIVE AckMessages(_, _)
AckMessages(ch, message_ids) ==
    IF message_ids = <<>> THEN ch
    ELSE AckMessages(process_message_ack(ch, Head(message_ids)), Tail(message_ids))

\* takes the acked sequence ids for message ids, without looking at sent_packets
ProcessAcks_BySequenceId(c, new_acks) ==
    [c EXCEPT !.send_reliable_channel = AckMessages(@, new_acks)]

\* Packet::Ack: for packet_sequence in new_acks
RECURSIVE ProcessAcks(_, _)
ProcessAcks(c, new_acks) ==
    IF new_acks = <<>> THEN c
    ELSE LET packet_sequence == Head(new_acks)
         IN IF packet_sequence \in DOMAIN c.sent_packets
            THEN ProcessAcks(
                   [c EXCEPT
                      !.sent_packets = Remove(@, packet_sequence),
                      !.send_reliable_channel =
                          AckMessages(@, c.sent_packets[packet_sequence].message_ids)],
                   Tail(new_acks))
            ELSE ProcessAcks(c, Tail(new_acks))

RECURSIVE ProcessUnreliableMessages(_, _)
ProcessUnreliableMessages(ch, messages) ==
    IF messages = <<>> THEN ch
    ELSE ProcessUnreliableMessages(unreliable_process_message(ch, Head(messages)),
                                   Tail(messages))

\* the loop of process_packet over the messages of a SmallReliable packet:
\* it returns at the first message the channel refuses
RECURSIVE ProcessMessages(_, _)
ProcessMessages(ch, messages) ==
    IF messages = <<>> THEN [ch |-> ch, res |-> "Ok"]
    ELSE LET r == process_message(ch, Head(messages)[2], Head(messages)[1])
         IN IF r.res # "Ok" THEN r
            ELSE ProcessMessages(r.ch, Tail(messages))

\* packet is what Packet::from_bytes returns: a packet or an error.
\* returns [c, panic]
process_packet(c, packet) ==
    IF is_disconnected(c) THEN [c |-> c, panic |-> FALSE]
    ELSE IF packet.kind = "Err"
    THEN [c |-> disconnect_with_reason(c, "PacketDeserialization", 0),
          panic |-> FALSE]
    ELSE IF packet.kind = "SmallReliable"
    THEN LET a == add_pending_ack(c.pending_acks, c.new_ack_to_send,
                                  packet.sequence_id)
             c1 == [c EXCEPT !.pending_acks = a.pending_acks,
                             !.new_ack_to_send = a.new_ack_to_send]
             r == ProcessMessages(c1.receive_reliable_channel, packet.messages)
             c2 == [c1 EXCEPT !.receive_reliable_channel = r.ch]
         IN IF a.panic THEN [c |-> c, panic |-> TRUE]
            ELSE IF r.res # "Ok"
            THEN [c |-> disconnect_with_reason(c2, "ReceiveChannelError",
                                               packet.channel_id),
                  panic |-> FALSE]
            ELSE [c |-> c2, panic |-> FALSE]
    ELSE IF packet.kind = "SmallUnreliable"
    THEN [c |-> [c EXCEPT !.receive_unreliable_channel =
                              ProcessUnreliableMessages(@, packet.messages)],
          panic |-> FALSE]
    ELSE [c |-> ProcessAcks(c, get_acked_packet_ids(packet.acked_seq_id,
                                                    packet.acked_mask)),
          panic |-> FALSE]

\* ChannelOrder::Reliable: the state of the loop after the channel returned r
AfterReliable(st, r) ==
    [c |-> [st.c EXCEPT !.send_reliable_channel = r.ch],
     available_bytes |-> r.available_bytes,
     packets |-> st.packets \o r.packets,
     panic |-> r.panic]

\* ChannelOrder::Unreliable: the state of the loop after the channel returned r
AfterUnreliable(st, r) ==
    [c |-> [st.c EXCEPT !.send_unreliable_channel = r.ch],
     available_bytes |-> r.available_bytes,
     packets |-> st.packets \o r.packets,
     panic |-> FALSE]

\* for order in channel_send_order: returns [c, available_bytes, packets, panic]
RECURSIVE SendOrderLoop(_, _, _)
SendOrderLoop(orders, st, oc) ==
    IF orders = <<>> \/ st.panic THEN st
    ELSE IF Head(orders).kind = "Reliable"
    THEN SendOrderLoop(Tail(orders),
                       AfterReliable(st, get_packets_to_send(
                           st.c.send_reliable_channel, st.available_bytes,
                           st.c.current_time, oc)),
                       oc)
    ELSE SendOrderLoop(Tail(orders),
                       AfterUnreliable(st, unreliable_get_packets_to_send(
                           st.c.send_unreliable_channel, st.available_bytes)),
                       oc)

MessageId(entry) == entry[1]

\* for packet in packets.iter(): the sent_packets entries of the reliable packets
RECURSIVE RegisterSentPackets(_, _, _)
RegisterSentPackets(sent_packets, packets, sent_at) ==
    IF packets = <<>> THEN sent_packets
    ELSE LET packet == Head(packets)
         IN IF packet.kind = "SmallReliable"
            THEN RegisterSentPackets(
                   Insert(sent_packets, packet.sequence_id,
                          [sent_at |-> sent_at,
                           channel_id |-> packet.channel_id,
                           message_ids |-> [j \in 1..Len(packet.messages) |->
                                              MessageId(packet.messages[j])]]),
                   Tail(packets), sent_at)
            ELSE RegisterSentPackets(sent_packets, Tail(packets), sent_at)

\* the number of bytes Packet::to_bytes writes
RECURSIVE MessagesLen(_, _)
MessagesLen(messages, reliable) ==
    IF messages = <<>> THEN 0
    ELSE LET m == Head(messages)
         IN (IF reliable
             THEN varint_len(m[1]) + varint_len(m[2].len) + m[2].len
             ELSE varint_len(m.len) + m.len)
            + MessagesLen(Tail(messages), reliable)

SerializedLen(packet) ==
    IF packet.kind = "SmallReliable" THEN 15 + MessagesLen(packet.messages, TRUE)
    ELSE IF packet.kind = "SmallUnreliable" THEN 3 + MessagesLen(packet.messages, FALSE)
    ELSE 14

\* if self.new_ack_to_send: the ack packet, if any, joins the packets; elapsed
\* is ack_process_start_instant.elapsed().as_millis(), cut to a u16
WithAckPacket(packets, a, elapsed) ==
    IF a.res # None
    THEN Append(packets, Ack(elapsed % U16, a.res[1][1], a.res[1][2]))
    ELSE packets

\* the sent_packets bookkeeping and the serialization of the packets
SerializePackets(c, packets) ==
    IF \E i \in 1..Len(packets) : SerializedLen(packets[i]) > BUFFER_LEN
    THEN [c |-> disconnect_with_reason(c, "PacketSerialization", 0),
          packets |-> <<>>, panic |-> FALSE]
    ELSE [c |-> c, packets |-> packets, panic |-> FALSE]

\* st is the state after the send order loop, a what create_acked_bytes returned
FinishPacketsToSend(st, a, packets) ==
    IF st.panic \/ a.panic THEN [c |-> st.c, packets |-> <<>>, panic |-> TRUE]
    ELSE SerializePackets(
           [st.c EXCEPT !.sent_packets =
                           RegisterSentPackets(@, packets, st.c.current_time)],
           packets)

AfterSendOrder(st, a, elapsed) ==
    FinishPacketsToSend(st, a, WithAckPacket(st.packets, a, elapsed))

AckToSend(c, oc) ==
    IF c.new_ack_to_send THEN create_acked_bytes(c.pending_acks, oc)
    ELSE [panic |-> FALSE, res |-> None]

PacketsAfterOrder(st, oc, elapsed) ==
    AfterSendOrder(st, AckToSend(st.c, oc), elapsed)

\* elapsed is the time in milliseconds since ack_process_start_instant;
\* returns [c, packets, panic]
UnityClient_get_packets_to_send(c, oc, elapsed) ==
    IF is_disconnected(c) THEN [c |-> c, packets |-> <<>>, panic |-> FALSE]
    ELSE PacketsAfterOrder(
           SendOrderLoop(c.channel_send_order,
                         [c |-> c, available_bytes |-> c.available_bytes_per_tick,
                          packets |-> <<>>, panic |-> FALSE],
                         oc),
           oc, elapsed)

----------------------------------------------------------------------------
(* Inputs *)

Payloads == {[data |-> "a", len |-> 1], [data |-> "b", len |-> 2]}

\* ack_process_start_instant.elapsed() in milliseconds at a send tick: none,
\* and more than a u16 holds
AckElapsed == {0, U16 + 30}

Budgets == {1, 2, 4}

NetBudgets == {1, 4}

NoCall == [op |-> "none"]

NoClient == [connection_status |-> "none"]

NoServer == [current_time |-> 0]

NoValidators == [addr \in {} |-> 0]

NoTransport == [socket |-> <<>>]

NoChannel == [channel_id |-> 0]

NoWorkers == <<>>

\* a thread between two calls
Idle == [at |-> "idle"]

\* the dispatcher is between two calls and no worker runs
NoThreads == [dispatcher |-> Idle, worker |-> <<>>]

\* nothing has been shown yet. rosters: the players a session id was created
\* with; named: the session id of the latest create_session that named a
\* player; opened: the channel of the latest create_session of a session id;
\* joined: the channel of the latest ClientConnected message of a client_id;
\* recorded: that channel, or the one of a later register_server
NoHistory ==
    [rosters |-> EmptyMap, named |-> EmptyMap, opened |-> EmptyMap,
     joined |-> EmptyMap, recorded |-> EmptyMap]

----------------------------------------------------------------------------
(* A reliable send channel, a lossy network and a reliable receive channel *)

InitWith(resend_time) ==
    /\ overflow_checks \in BOOLEAN
    /\ panicked = FALSE
    /\ sc = SendChannelReliable_new(1, resend_time, SendMaxMemory)
    /\ rc = ReceiveChannelReliable_new(RecvMaxMemory)
    /\ now = 0
    /\ net = {}
    /\ sent_log = <<>>
    /\ recv_log = <<>>
    /\ ret = NoCall
    /\ client = NoClient
    /\ server = NoServer
    /\ validators = NoValidators
    /\ transport = NoTransport
    /\ uc = NoChannel
    /\ denaria = NoWorkers
    /\ pc = NoThreads
    /\ hist = NoHistory

ChanInit == InitWith(ResendTime)

SendMessage(m) ==
    /\ ~panicked
    /\ LET r == send_message(sc, m)
       IN /\ sc' = r.ch
          /\ sent_log' = IF r.res = "Ok" THEN Append(sent_log, m) ELSE sent_log
          /\ ret' = [op |-> "send_message", message |-> m, res |-> r.res]
    /\ UNCHANGED <<overflow_checks, panicked, rc, now, net, recv_log, client, server, validators, transport, uc, denaria, pc, hist>>

\* the call itself: the channel, the returned packets, a possible panic
GetPacketsToSendCall(b) ==
    /\ ~panicked
    /\ LET r == get_packets_to_send(sc, b, now, overflow_checks)
       IN /\ sc' = r.ch
          /\ panicked' = r.panic
          /\ ret' = [op |-> "get_packets_to_send", available_bytes |-> b,
                     current_time |-> now, panic |-> r.panic,
                     packets |-> IF r.panic THEN <<>> ELSE r.packets,
                     resent |-> {id \in DOMAIN sc.unacked_messages :
                                   /\ sc.unacked_messages[id].last_sent # None
                                   /\ r.ch.unacked_messages[id].last_sent = Some(now)
                                   /\ sc.unacked_messages[id].last_sent # Some(now)},
                     available_bytes_out |-> r.available_bytes]

GetPacketsToSend(b) ==
    /\ GetPacketsToSendCall(b)
    /\ UNCHANGED <<overflow_checks, rc, now, net, sent_log, recv_log, client, server, validators, transport, uc, denaria, pc, hist>>

\* the call, with the returned packets handed to the network
Transmit(b) ==
    /\ GetPacketsToSendCall(b)
    /\ net' = net \cup {ret'.packets[i] : i \in 1..Len(ret'.packets)}
    /\ UNCHANGED <<overflow_checks, rc, now, sent_log, recv_log, client, server, validators, transport, uc, denaria, pc, hist>>

ProcessMessageAck(id) ==
    /\ ~panicked
    /\ sc' = process_message_ack(sc, id)
    /\ ret' = [op |-> "process_message_ack", message_id |-> id]
    /\ UNCHANGED <<overflow_checks, panicked, rc, now, net, sent_log, recv_log,
                   client, server, validators, transport, uc, denaria, pc, hist>>

Tick(max) ==
    /\ ~panicked
    /\ now < max
    /\ now' = now + 1
    /\ ret' = [op |-> "tick"]
    /\ UNCHANGED <<overflow_checks, panicked, sc, rc, net, sent_log, recv_log,
                   client, server, validators, transport, uc, denaria, pc, hist>>

DropPacket(p) ==
    /\ ~panicked
    /\ p \in net
    /\ net' = net \ {p}
    /\ ret' = [op |-> "drop"]
    /\ UNCHANGED <<overflow_checks, panicked, sc, rc, now, sent_log, recv_log,
                   client, server, validators, transport, uc, denaria, pc, hist>>

DeliverPacket(p) ==
    /\ ~panicked
    /\ p \in net
    /\ LET r == ProcessMessages(rc, p.messages)
       IN /\ rc' = r.ch
          /\ ret' = [op |-> "process_packet", packet |-> p, res |-> r.res]
    /\ UNCHANGED <<overflow_checks, panicked, sc, now, net, sent_log, recv_log,
                   client, server, validators, transport, uc, denaria, pc, hist>>

ReceiveMessage ==
    /\ ~panicked
    /\ LET r == receive_message(rc)
       IN /\ rc' = r.ch
          /\ recv_log' = IF r.res = None THEN recv_log
                         ELSE Append(recv_log, <<rc.oldest_pending_message_id, r.res[1]>>)
          /\ ret' = [op |-> "receive_message", res |-> r.res]
    /\ UNCHANGED <<overflow_checks, panicked, sc, now, net, sent_log, client, server, validators, transport, uc, denaria, pc, hist>>

SendNext ==
    \/ \E m \in Payloads : sc.next_message_id < MaxMessages /\ SendMessage(m)
    \/ \E b \in Budgets : sc.next_package_sequence_id < MaxPackets /\ GetPacketsToSend(b)
    \/ \E id \in 0..MaxMessages : ProcessMessageAck(id)
    \/ Tick(MaxTime)

SpecSend == ChanInit /\ [][SendNext]_vars

UnackedLen(id) == sc.unacked_messages[id].message.len

\* C1: the memory usage of the reliable send channel is the sum of the payload
\* lengths of its unacked messages and never exceeds the cap, so that
\* available_memory never underflows.
C1_MemoryAccounting ==
    /\ sc.memory_usage_bytes = Sum([id \in DOMAIN sc.unacked_messages |-> UnackedLen(id)])
    /\ sc.memory_usage_bytes <= sc.max_memory_usage_bytes
    /\ available_memory(sc) >= 0

\* an ack has released a message and the channel was filled to the cap again
C1_Witness ==
    /\ ret.op = "send_message" /\ ret.res = "Ok"
    /\ sc.memory_usage_bytes = sc.max_memory_usage_bytes
    /\ Cardinality(DOMAIN sc.unacked_messages) < sc.next_message_id
    /\ \E id \in DOMAIN sc.unacked_messages :
           sc.unacked_messages[id].last_sent # None

\* C5: a send_message that would exceed the cap by at least one byte is refused
\* and changes nothing; one that fits, the exact fill included, is accepted
\* under the next message id.
C5_SendAdmission ==
    [][ret'.op = "send_message" =>
        IF sc.memory_usage_bytes + ret'.message.len >= sc.max_memory_usage_bytes + 1
        THEN ret'.res = "ReliableChannelMaxMemoryReached" /\ sc' = sc
        ELSE /\ ret'.res = "Ok"
             /\ sc'.next_message_id = sc.next_message_id + 1
             /\ DOMAIN sc'.unacked_messages =
                    DOMAIN sc.unacked_messages \cup {sc.next_message_id}
             /\ sc'.unacked_messages[sc.next_message_id] =
                    [message |-> ret'.message, last_sent |-> None]
             /\ sc'.memory_usage_bytes = sc.memory_usage_bytes + ret'.message.len
    ]_vars

\* a send refused because it would exceed the cap by exactly one byte
C5_Witness ==
    /\ ret.op = "send_message" /\ ret.res = "ReliableChannelMaxMemoryReached"
    /\ sc.memory_usage_bytes + ret.message.len = sc.max_memory_usage_bytes + 1

\* the ids a get_packets_to_send call has put in its packets
Emitted == {id \in DOMAIN sc.unacked_messages :
              \E i \in 1..Len(ret'.packets) :
                 \E j \in 1..Len(ret'.packets[i].messages) :
                    ret'.packets[i].messages[j][1] = id}

\* the byte budget left when the call reaches message id
Remaining(id) ==
    ret'.available_bytes
      - Sum([k \in {k \in Emitted : k < id} |-> UnackedLen(k)])

\* C6: a message emitted at time t is not emitted again by a call made less
\* than resend_time later, and is emitted again by a call made resend_time or
\* more later as soon as the remaining byte budget covers its length.
C6_ResendInterval ==
    [][(ret'.op = "get_packets_to_send" /\ ~ret'.panic) =>
        \A id \in DOMAIN sc.unacked_messages :
           LET last_sent == sc.unacked_messages[id].last_sent
           IN /\ last_sent # None =>
                   (id \in Emitted <=>
                       /\ now - last_sent[1] >= sc.resend_time
                       /\ Remaining(id) >= UnackedLen(id))
              /\ sc'.unacked_messages[id].last_sent =
                   IF id \in Emitted THEN Some(now) ELSE last_sent
    ]_vars

\* a call has emitted again a message that an earlier call had emitted
C6_Witness ==
    /\ ret.op = "get_packets_to_send"
    /\ ret.resent # {}
    /\ \E id \in DOMAIN sc.unacked_messages :
          /\ sc.unacked_messages[id].last_sent # None
          /\ sc.unacked_messages[id].last_sent # Some(now)

ChanNext ==
    \/ \E m \in Payloads : sc.next_message_id < NetMaxMessages /\ SendMessage(m)
    \/ \E b \in NetBudgets : sc.next_package_sequence_id < NetMaxPackets /\ Transmit(b)
    \/ \E id \in 0..NetMaxMessages : ProcessMessageAck(id)
    \/ Tick(NetMaxTime)
    \/ \E p \in net : DropPacket(p)
    \/ \E p \in net : DeliverPacket(p)
    \/ ReceiveMessage

NetInit == InitWith(NetResendTime)

SpecChan == NetInit /\ [][ChanNext]_vars

\* C2: whatever the network drops, duplicates or reorders, the payloads
\* returned by receive_message are a prefix of the payloads accepted by
\* send_message: same order, nothing missing inside, nothing twice.
C2_OrderedDelivery ==
    /\ Len(recv_log) <= Len(sent_log)
    /\ \A i \in 1..Len(recv_log) :
          recv_log[i] = <<i - 1, sent_log[i]>>

\* two different payloads were delivered while a later message was still
\* buffered or a packet was still in flight
C2_Witness ==
    /\ Len(recv_log) >= 2
    /\ recv_log[1][2] # recv_log[2][2]
    /\ net # {}

----------------------------------------------------------------------------
(* A reliable receive channel fed arbitrary (bytes, id) *)

ProcessMessage(m, id) ==
    /\ ~panicked
    /\ LET r == process_message(rc, m, id)
       IN /\ rc' = r.ch
          /\ ret' = [op |-> "process_message", message |-> m, message_id |-> id,
                     res |-> r.res]
    /\ UNCHANGED <<overflow_checks, panicked, sc, now, net, sent_log, recv_log,
                   client, server, validators, transport, uc, denaria, pc, hist>>

RecvNext ==
    \/ \E m \in Payloads, id \in 0..MaxId : ProcessMessage(m, id)
    \/ ReceiveMessage

SpecRecv == ChanInit /\ [][RecvNext]_vars

\* C3: the ids delivered by receive_message are 0, 1, 2, ... in that order,
\* none twice; an id below oldest_pending_message_id is never buffered; a
\* message whose id is already buffered or already delivered changes nothing.
C3_ExactlyOnceInOrder ==
    /\ [](/\ \A i \in 1..Len(recv_log) : recv_log[i][1] = i - 1
          /\ rc.oldest_pending_message_id = Len(recv_log)
          /\ \A id \in DOMAIN rc.messages : id >= rc.oldest_pending_message_id)
    /\ [][(/\ ret'.op = "process_message"
           /\ \/ ret'.message_id \in DOMAIN rc.messages
              \/ ret'.message_id < rc.oldest_pending_message_id)
          => (rc' = rc /\ recv_log' = recv_log)]_vars

\* a copy of an id already delivered has arrived after two deliveries
C3_Witness ==
    /\ Len(recv_log) >= 2
    /\ ret.op = "process_message"
    /\ ret.message_id < rc.oldest_pending_message_id
    /\ rc.messages # EmptyMap

\* C4: receive_message returns nothing and changes nothing while the entry of
\* oldest_pending_message_id is absent, whatever higher ids are buffered; when
\* it is present the call returns it, removes it alone and expects the next id.
C4_GapStallsDelivery ==
    [][ret'.op = "receive_message" =>
        LET id == rc.oldest_pending_message_id
        IN IF id \notin DOMAIN rc.messages
           THEN ret'.res = None /\ rc' = rc /\ recv_log' = recv_log
           ELSE /\ ret'.res = Some(rc.messages[id])
                /\ rc'.oldest_pending_message_id = id + 1
                /\ rc'.messages = Remove(rc.messages, id)
                /\ rc'.memory_usage_bytes = rc.memory_usage_bytes - rc.messages[id].len
                /\ recv_log' = Append(recv_log, <<id, rc.messages[id]>>)
    ]_vars

\* after a delivery, a call has returned nothing although higher ids are buffered
C4_Witness ==
    /\ ret.op = "receive_message" /\ ret.res = None
    /\ Len(recv_log) >= 1
    /\ Cardinality(DOMAIN rc.messages) >= 2

----------------------------------------------------------------------------
(* A reliable send channel whose 16-bit sequence id is about to wrap: the     *)
(* state after WrapStart messages were sent one per packet and acked.         *)

WrapStart == U16 - 2

WrapInit ==
    /\ overflow_checks \in BOOLEAN
    /\ panicked = FALSE
    /\ sc = [SendChannelReliable_new(1, ResendTime, SendMaxMemory) EXCEPT
                !.next_package_sequence_id = WrapStart,
                !.next_message_id = WrapStart]
    /\ rc = ReceiveChannelReliable_new(RecvMaxMemory)
    /\ now = 0
    /\ net = {}
    /\ sent_log = <<>>
    /\ recv_log = <<>>
    /\ ret = NoCall
    /\ client = NoClient
    /\ server = NoServer
    /\ validators = NoValidators
    /\ transport = NoTransport
    /\ uc = NoChannel
    /\ denaria = NoWorkers
    /\ pc = NoThreads
    /\ hist = NoHistory

WrapNext ==
    \/ \E m \in Payloads :
          sc.next_message_id < WrapStart + WrapMaxMessages /\ SendMessage(m)
    \/ \E b \in Budgets :
          /\ (sc.next_package_sequence_id - WrapStart) % U16 < WrapMaxPackets
          /\ GetPacketsToSend(b)
    \/ \E id \in WrapStart..(WrapStart + WrapMaxMessages) : ProcessMessageAck(id)
    \/ Tick(WrapMaxTime)

SpecWrap == WrapInit /\ [][WrapNext]_vars

\* C9: the reliable packets carry consecutive sequence ids modulo 2^16 in
\* emission order, within a call and from one call to the next; after 65535
\* comes 0 and the emission goes on without failure.
C9_SequenceIds ==
    [][ret'.op = "get_packets_to_send" =>
        /\ ~ret'.panic
        /\ \A i \in 1..Len(ret'.packets) :
              ret'.packets[i].sequence_id = (sc.next_package_sequence_id + i - 1) % U16
        /\ sc'.next_package_sequence_id =
              (sc.next_package_sequence_id + Len(ret'.packets)) % U16
    ]_vars

\* the same statement for the builds whose arithmetic wraps
C9_WrappingBuild ==
    [][(ret'.op = "get_packets_to_send" /\ ~overflow_checks) =>
        /\ ~ret'.panic
        /\ \A i \in 1..Len(ret'.packets) :
              ret'.packets[i].sequence_id = (sc.next_package_sequence_id + i - 1) % U16
        /\ sc'.next_package_sequence_id =
              (sc.next_package_sequence_id + Len(ret'.packets)) % U16
    ]_vars

\* a packet with sequence id 0 followed the packet with sequence id 65535
C9_WrapReached ==
    /\ ret.op = "get_packets_to_send"
    /\ \E i \in 1..Len(ret.packets) : ret.packets[i].sequence_id = 0
    /\ sc.next_package_sequence_id = 1

----------------------------------------------------------------------------
(* A connection: the application on one side, the transport on the other *)

InPackets ==
    {[kind |-> "Err"]}
    \cup {SmallUnreliable(0, <<m>>) : m \in Payloads}
    \cup {SmallReliable(1, s, <<<<0, [data |-> "a", len |-> 1]>>>>) : s \in {0, U16 - 1}}
    \cup {SmallReliable(1, 0, <<<<0, [data |-> "c", len |-> ConnReliableMemory + 1]>>,
                                <<1, [data |-> "a", len |-> 1]>>>>)}
    \cup {Ack(0, 0, {}), Ack(0, 0, {0}), Ack(30, 1, {0, 1})}

ConnInit ==
    /\ overflow_checks \in BOOLEAN
    /\ panicked = FALSE
    /\ sc = SendChannelReliable_new(1, ResendTime, SendMaxMemory)
    /\ rc = ReceiveChannelReliable_new(RecvMaxMemory)
    /\ now = 0
    /\ net = {}
    /\ sent_log = <<>>
    /\ recv_log = <<>>
    /\ ret = NoCall
    /\ client = UnityClient_new(ConnBytesPerTick, ConnUnreliableMemory, ResendTime,
                                ConnReliableMemory)
    /\ server = NoServer
    /\ validators = NoValidators
    /\ transport = NoTransport
    /\ uc = NoChannel
    /\ denaria = NoWorkers
    /\ pc = NoThreads
    /\ hist = NoHistory

connUnchanged ==
    <<overflow_checks, sc, rc, now, net, sent_log, recv_log, server, validators, transport, uc, denaria, pc, hist>>

ClientSetConnected(player_id) ==
    /\ ~panicked
    /\ client' = set_connected(client, player_id)
    /\ ret' = [op |-> "set_connected"]
    /\ UNCHANGED <<panicked, connUnchanged>>

ClientSetConnecting ==
    /\ ~panicked
    /\ client' = set_connecting(client)
    /\ ret' = [op |-> "set_connecting"]
    /\ UNCHANGED <<panicked, connUnchanged>>

ClientDisconnect ==
    /\ ~panicked
    /\ client' = disconnect(client)
    /\ ret' = [op |-> "disconnect"]
    /\ UNCHANGED <<panicked, connUnchanged>>

ClientDisconnectDueToTransport ==
    /\ ~panicked
    /\ client' = disconnect_due_to_transport(client)
    /\ ret' = [op |-> "disconnect_due_to_transport"]
    /\ UNCHANGED <<panicked, connUnchanged>>

ClientSendMessage(channel_id, m) ==
    /\ ~panicked
    /\ LET r == UnityClient_send_message(client, channel_id, m)
       IN /\ client' = r.c
          /\ panicked' = r.panic
    /\ ret' = [op |-> "send_message", channel_id |-> channel_id, message |-> m]
    /\ UNCHANGED connUnchanged

ClientReceiveMessage(channel_id) ==
    /\ ~panicked
    /\ LET r == UnityClient_receive_message(client, channel_id)
       IN /\ client' = r.c
          /\ panicked' = r.panic
          /\ ret' = [op |-> "receive_message", channel_id |-> channel_id,
                     res |-> r.res]
    /\ UNCHANGED connUnchanged

ClientUpdate(duration) ==
    /\ ~panicked
    /\ client' = update(client, duration)
    /\ ret' = [op |-> "update", duration |-> duration]
    /\ UNCHANGED <<panicked, connUnchanged>>

ClientProcessPacket(packet) ==
    /\ ~panicked
    /\ LET r == process_packet(client, packet)
       IN /\ client' = r.c
          /\ panicked' = r.panic
    /\ ret' = [op |-> "process_packet", packet |-> packet]
    /\ UNCHANGED connUnchanged

ClientGetPacketsToSend(elapsed) ==
    /\ ~panicked
    /\ LET r == UnityClient_get_packets_to_send(client, overflow_checks, elapsed)
       IN /\ client' = r.c
          /\ panicked' = r.panic
          /\ ret' = [op |-> "get_packets_to_send", packets |-> r.packets]
    /\ UNCHANGED connUnchanged

ConnNext ==
    \/ ClientSetConnected("p01")
    \/ ClientSetConnecting
    \/ ClientDisconnect
    \/ ClientDisconnectDueToTransport
    \/ \E channel_id \in {0, 1}, m \in Payloads :
          /\ client.send_reliable_channel.next_message_id < ConnMaxMessages
          /\ ClientSendMessage(channel_id, m)
    \/ \E channel_id \in {0, 1} : ClientReceiveMessage(channel_id)
    \/ \E duration \in {1, 2} :
          client.current_time + duration <= ConnMaxTime /\ ClientUpdate(duration)
    \/ \E packet \in InPackets : ClientProcessPacket(packet)
    \/ \E elapsed \in AckElapsed : ClientGetPacketsToSend(elapsed)

SpecConn == ConnInit /\ [][ConnNext]_vars

\* the sequence ids an ack packet names
AckedIds(packet) == {(packet.acked_seq_id - i) % U16 : i \in packet.acked_mask}

\* C8: process_message_ack applied twice leaves the send channel as applied
\* once, and changes nothing for an id that is not unacked; an ack packet that
\* names no sequence id of sent_packets leaves sent_packets, the unacked set
\* and the memory usage of the connection unchanged.
C8_AckIdempotent ==
    /\ [](\A id \in 0..ConnMaxMessages :
            LET ch == client.send_reliable_channel
                once == process_message_ack(ch, id)
            IN /\ process_message_ack(once, id) = once
               /\ id \notin DOMAIN ch.unacked_messages => once = ch
               /\ id \in DOMAIN ch.unacked_messages =>
                    /\ DOMAIN once.unacked_messages = DOMAIN ch.unacked_messages \ {id}
                    /\ once.memory_usage_bytes =
                         ch.memory_usage_bytes - ch.unacked_messages[id].message.len)
    /\ [][(/\ ret'.op = "process_packet"
           /\ ret'.packet.kind = "Ack"
           /\ AckedIds(ret'.packet) \cap DOMAIN client.sent_packets = {})
          => /\ client'.sent_packets = client.sent_packets
             /\ client'.send_reliable_channel = client.send_reliable_channel]_vars

\* an ack naming two unknown sequence ids was processed while reliable
\* messages were waiting for their ack
C8_Witness ==
    /\ ret.op = "process_packet"
    /\ ret.packet.kind = "Ack"
    /\ Cardinality(AckedIds(ret.packet)) = 2
    /\ is_connected(client)
    /\ Cardinality(DOMAIN client.send_reliable_channel.unacked_messages) = 2

\* the connection never registers a sent packet: its send order names the
\* unreliable channel twice, so the reliable send channel is never polled
SentPacketsEmpty ==
    /\ client.sent_packets = EmptyMap
    /\ \A id \in DOMAIN client.send_reliable_channel.unacked_messages :
          client.send_reliable_channel.unacked_messages[id].last_sent = None
    /\ client.pending_acks = <<>>

\* C12: a reliable packet whose message the receive channel refuses for its
\* memory cap leaves the connection Disconnected with ReceiveChannelError for
\* the packet's channel, and the messages after the refused one are not stored.
C12_ReceiveMemoryDisconnect ==
    [][(/\ ret'.op = "process_packet"
        /\ ret'.packet.kind = "SmallReliable"
        /\ ~is_disconnected(client)
        /\ ProcessMessages(client.receive_reliable_channel,
                           ret'.packet.messages).res # "Ok")
       => /\ ~panicked'
          /\ client'.connection_status =
                Disconnected("ReceiveChannelError", ret'.packet.channel_id)
          /\ client'.receive_reliable_channel = client.receive_reliable_channel]_vars

\* a disconnected connection emits no packet and delivers no message
C12_DisconnectedIsSilent ==
    [][is_disconnected(client) =>
          /\ ret'.op = "get_packets_to_send" => ret'.packets = <<>>
          /\ ret'.op = "receive_message" => ret'.res = None]_vars

\* process_packet was given a reliable packet and the connection panicked
C12_PanicOnReliablePacket ==
    panicked /\ ret.op = "process_packet" /\ ret.packet.kind = "SmallReliable"

\* C13: the status only moves Connecting -> Connected and Connecting or
\* Connected -> Disconnected, and a Disconnected status, with its reason, is
\* never changed by any operation.
C13_StatusMachine ==
    [][\/ client'.connection_status = client.connection_status
       \/ is_connecting(client) /\ is_connected(client')
       \/ ~is_disconnected(client) /\ is_disconnected(client')]_vars

\* C13 as amended: the status moves between Connecting and Connected in both
\* directions (set_connected, set_connecting) and from either to Disconnected;
\* a Disconnected status, with its reason, is never changed by any operation.
C13_DisconnectedIsTerminal ==
    [][/\ is_disconnected(client) =>
             client'.connection_status = client.connection_status
       /\ (~is_disconnected(client) /\ is_connecting(client')) =>
             (is_connecting(client) \/ ret'.op = "set_connecting")
       /\ (~is_disconnected(client) /\ is_connected(client')) =>
             (is_connected(client) \/ ret'.op = "set_connected")]_vars

\* set_connected was called on a connection that a receive error had closed
C13_Witness ==
    /\ ret.op = "set_connected"
    /\ client.connection_status = Disconnected("PacketDeserialization", 0)

----------------------------------------------------------------------------
(* TransportServer.  Durations are in milliseconds.                         *)

TRANSPORT_SEND_RATE == 250

TRANSPORT_MAX_PACKET_BYTES == 1400

TRANSPORT_MAX_CLIENTS == 1024

\* Duration::as_secs
as_secs(t) == t \div 1000

\* Duration::from_secs
from_secs(n) == n * 1000

\* server/transport/server/packet.rs: what Packet::decode returns
TErr(err) == [kind |-> "Err", err |-> err]
\* Packet::decode panics: buffer[0] of an empty datagram, or a CreateSession
\* that announces more player ids than it carries
TPanic == [kind |-> "Panic"]
TConnectionRequest(connection_side_id, client_identifier) ==
    [kind |-> "ConnectionRequest", connection_side_id |-> connection_side_id,
     client_identifier |-> client_identifier]
TKeepAlive(client_identifier) ==
    [kind |-> "KeepAlive", client_identifier |-> client_identifier]
TData(client_identifier, payload) ==
    [kind |-> "Data", client_identifier |-> client_identifier, payload |-> payload]
TDisconnect(client_identifier) ==
    [kind |-> "Disconnect", client_identifier |-> client_identifier]
TCreateSession(client_identifier, session_id, player_ids) ==
    [kind |-> "CreateSession", client_identifier |-> client_identifier,
     session_id |-> session_id, player_ids |-> player_ids]

\* ServerResult
SNone == [kind |-> "None"]
PacketToSend(addr, payload) ==
    [kind |-> "PacketToSend", addr |-> addr, payload |-> payload]
Payload(client_id, payload) ==
    [kind |-> "Payload", client_id |-> client_id, payload |-> payload]
ClientConnected(client_id, addr, payload, player_id) ==
    [kind |-> "ClientConnected", client_id |-> client_id, addr |-> addr,
     payload |-> payload, player_id |-> player_id]
ClientDisconnected(client_id, addr, payload) ==
    [kind |-> "ClientDisconnected", client_id |-> client_id, addr |-> addr,
     payload |-> payload]
CreateSession(id, player_ids) ==
    [kind |-> "CreateSession", id |-> id, player_ids |-> player_ids]

\* or_insert_with(|| Connection {..})
NewConnection(addr, client_identifier, current_time) ==
    [confirmed |-> FALSE,
     client_id |-> client_identifier,
     state |-> "PendingResponse",
     is_authenticated |-> [authenticated |-> FALSE, player_id |-> ""],
     addr |-> addr,
     last_packet_received_time |-> current_time,
     last_packet_send_time |-> current_time,
     timeout_seconds |-> 10,
     expire_timestamp |-> as_secs(current_time) + 10]

\* TransportServer::new panics for more than TRANSPORT_MAX_CLIENTS clients
NewPanics(max_clients) == max_clients > TRANSPORT_MAX_CLIENTS

TransportServer_new(current_time, max_clients) ==
    IF NewPanics(max_clients) THEN "panic"
    ELSE [clients |-> [i \in 0..(max_clients - 1) |-> None],
          pending_clients |-> EmptyMap,
          max_clients |-> max_clients,
          current_time |-> current_time]

\* the slots stay as new made them
set_max_clients(s, max_clients) == [s EXCEPT !.max_clients = max_clients]

\* what the handlers return: the server, the result, the error of the
\* internal handler if any, the validator spawned if any, a panic
Out(s, res) == [s |-> s, res |-> res, err |-> "", spawn |-> None, panic |-> FALSE]

Failed(s, err) == [s |-> s, res |-> SNone, err |-> err, spawn |-> None, panic |-> FALSE]

Panicked(s) == [s |-> s, res |-> SNone, err |-> "", spawn |-> None, panic |-> TRUE]

OccupiedSlots(clients) == {i \in DOMAIN clients : clients[i] # None}

FirstOf(S) == IF S = {} THEN None ELSE Some(Min(S))

find_client_slot_by_id(clients, client_id) ==
    FirstOf({i \in OccupiedSlots(clients) : clients[i][1].client_id = client_id})

find_client_mut_by_addr(clients, addr) ==
    FirstOf({i \in OccupiedSlots(clients) : clients[i][1].addr = addr})

\* the entry of addr after a connection request: the one it had, or a new one
PendingEntry(s, addr, client_identifier) ==
    IF addr \in DOMAIN s.pending_clients THEN s.pending_clients[addr]
    ELSE NewConnection(addr, client_identifier, s.current_time)

\* lets one entry more in
PendingTableFull_OffByOne(s, addr) ==
    /\ addr \notin DOMAIN s.pending_clients
    /\ Cardinality(DOMAIN s.pending_clients) > MaxPending

\* !contains_key(&addr) && len() >= TRANSPORT_MAX_PENDING_CLIENTS; MaxPending
\* stands for TRANSPORT_MAX_PENDING_CLIENTS
PendingTableFull(s, addr) ==
    /\ addr \notin DOMAIN s.pending_clients
    /\ Cardinality(DOMAIN s.pending_clients) >= MaxPending

handle_connection_request(s, addr, client_identifier) ==
    IF \/ find_client_slot_by_id(s.clients, client_identifier) # None
       \/ find_client_mut_by_addr(s.clients, addr) # None
    THEN Out(s, SNone)
    ELSE IF PendingTableFull(s, addr)
    THEN Out(s, SNone)
    ELSE IF Cardinality(OccupiedSlots(s.clients)) >= s.max_clients
    THEN Out([s EXCEPT !.pending_clients = Remove(@, addr)], SNone)
    ELSE Out([s EXCEPT !.pending_clients =
                Insert(@, addr,
                       [PendingEntry(s, addr, client_identifier) EXCEPT
                          !.last_packet_received_time = s.current_time,
                          !.last_packet_send_time = s.current_time])],
             PacketToSend(addr, TConnectionRequest(2, client_identifier)))

\* the number of bytes Packet::Data encodes to
DataLen(payload_len) == 1 + 8 + payload_len

\* returns [s, res]: res is Ok with the datagram or Err
generate_payload_packet(s, client_identifier, payload) ==
    IF find_client_slot_by_id(s.clients, client_identifier) = None
    THEN [s |-> s, res |-> [kind |-> "Err", err |-> "ClientNotFound"]]
    ELSE IF DataLen(payload.len) > TRANSPORT_MAX_PACKET_BYTES
    THEN [s |-> s, res |-> [kind |-> "Err", err |-> "IoError"]]
    ELSE [s |-> [s EXCEPT
                   !.clients[find_client_slot_by_id(s.clients, client_identifier)[1]] =
                       Some([@[1] EXCEPT !.last_packet_send_time = s.current_time])],
          res |-> [kind |-> "Ok",
                   addr |-> s.clients[find_client_slot_by_id(
                                s.clients, client_identifier)[1]][1].addr,
                   payload |-> TData(client_identifier, payload)]]

\* the payload of a Data packet: its length, the bytes the auth preamble is
\* read from, and whether its player id and session ticket are UTF-8
DataPayload(len, channel_id, messages_len, message_type, player_id, utf8) ==
    [len |-> len, channel_id |-> channel_id, messages_len |-> messages_len,
     message_type |-> message_type, player_id |-> player_id, utf8 |-> utf8]

\* the checks of the PendingResponse branch on the payload, in source order
AuthPreamble(payload) ==
    IF payload.len < 6 THEN "panic"               \* bytes[5]
    ELSE IF \/ payload.len < 17
            \/ payload.channel_id # 0
            \/ payload.messages_len # 1
            \/ payload.message_type # 0
    THEN "InvalidPacketType"
    ELSE IF payload.len - 6 < 16 THEN "panic"     \* bytes[6..].split_at(16)
    ELSE IF payload.utf8 = "bad_player_id" THEN "InvalidPlayerId"
    ELSE IF payload.utf8 = "bad_session_ticket" THEN "InvalidSessionTicket"
    ELSE "Ok"

\* ConnectionState::Connected of a slot
ConnectedDispatch(s, slot, addr, packet) ==
    IF s.clients[slot][1].state # "Connected" THEN Out(s, SNone)
    ELSE IF packet.kind = "Disconnect"
    THEN Out([s EXCEPT !.clients[slot] = None],
             ClientDisconnected(s.clients[slot][1].client_id, addr, None))
    ELSE IF packet.kind = "Data"
    THEN Out([s EXCEPT !.clients[slot] = Some([@[1] EXCEPT !.confirmed = TRUE])],
             Payload(s.clients[slot][1].client_id, packet.payload))
    ELSE IF packet.kind = "KeepAlive"
    THEN Out([s EXCEPT !.clients[slot] = Some([@[1] EXCEPT !.confirmed = TRUE])],
             SNone)
    ELSE Out(s, SNone)

\* Handle connected client
ConnectedPacket(s, slot, addr, packet) ==
    IF packet.kind = "Panic" THEN Panicked(s)
    ELSE IF packet.kind = "Err" THEN Failed(s, packet.err)
    ELSE ConnectedDispatch(
           [s EXCEPT !.clients[slot] =
               Some([@[1] EXCEPT !.last_packet_received_time = s.current_time])],
           slot, addr, packet)

\* the wrong client id is looked up: the pending entry's, not the packet's
AlreadyConnected_PendingId(s, pending, packet) ==
    find_client_slot_by_id(s.clients, pending.client_id) # None

\* if find_client_slot_by_id(&self.clients, client_identifier).is_some()
AlreadyConnected(s, pending, packet) ==
    find_client_slot_by_id(s.clients, packet.client_identifier) # None

\* some slot other than the first free one
FreeSlot_Last(clients) ==
    IF DOMAIN clients \ OccupiedSlots(clients) = {} THEN None
    ELSE Some(Max(DOMAIN clients \ OccupiedSlots(clients)))

\* self.clients.iter().position(|c| c.is_none())
FreeSlot(clients) == FirstOf(DOMAIN clients \ OccupiedSlots(clients))

\* connects whatever the auth cell says
IsAuthenticated_Always(pending) == TRUE

\* is_authenticated.0, read under the lock
IsAuthenticated(pending) == pending.is_authenticated.authenticated

\* answers nothing when no slot is free
AuthenticatingData_Silent(s, pending, addr, packet) ==
    IF IsAuthenticated(pending)
    THEN IF AlreadyConnected(s, pending, packet) THEN Out(s, SNone)
         ELSE IF FreeSlot(s.clients) = None
         THEN Out(s, SNone)
         ELSE Out([s EXCEPT !.clients[FreeSlot(s.clients)[1]] =
                      Some([pending EXCEPT
                              !.state = "Connected",
                              !.last_packet_send_time = s.current_time])],
                  ClientConnected(pending.client_id, addr,
                                  TKeepAlive(packet.client_identifier),
                                  pending.is_authenticated.player_id))
    ELSE Out([s EXCEPT !.pending_clients = Insert(@, addr, pending)], SNone)

\* ConnectionState::Authenticating; s is the server after the entry was
\* taken out of pending_clients
AuthenticatingData(s, pending, addr, packet) ==
    IF IsAuthenticated(pending)
    THEN IF AlreadyConnected(s, pending, packet) THEN Out(s, SNone)
         ELSE IF FreeSlot(s.clients) = None
         THEN Out(s, PacketToSend(addr, TDisconnect(packet.client_identifier)))
         ELSE Out([s EXCEPT !.clients[FreeSlot(s.clients)[1]] =
                      Some([pending EXCEPT
                              !.state = "Connected",
                              !.last_packet_send_time = s.current_time])],
                  ClientConnected(pending.client_id, addr,
                                  TKeepAlive(packet.client_identifier),
                                  pending.is_authenticated.player_id))
    ELSE Out([s EXCEPT !.pending_clients = Insert(@, addr, pending)], SNone)

\* ConnectionState::PendingResponse, checked is what AuthPreamble returned
PendingResponseData(s, pending, addr, packet, checked) ==
    IF checked = "panic" THEN Panicked(s)
    ELSE IF checked # "Ok" THEN Failed(s, checked)
    ELSE [s |-> [s EXCEPT !.pending_clients =
                    Insert(@, addr,
                           [pending EXCEPT
                              !.state = "Authenticating",
                              !.last_packet_send_time = s.current_time])],
          res |-> PacketToSend(addr, TKeepAlive(packet.client_identifier)),
          err |-> "",
          spawn |-> Some(packet.payload.player_id),
          panic |-> FALSE]

\* Packet::Data from a pending client
PendingData(s, pending, addr, packet) ==
    IF pending.state = "Authenticating"
    THEN AuthenticatingData(s, pending, addr, packet)
    ELSE IF pending.state = "PendingResponse"
    THEN PendingResponseData(s, pending, addr, packet, AuthPreamble(packet.payload))
    ELSE Out(s, SNone)

PendingDispatch(s, addr, packet) ==
    IF packet.kind = "ConnectionRequest"
    THEN IF packet.connection_side_id = 1
         THEN handle_connection_request(s, addr, packet.client_identifier)
         ELSE Out(s, SNone)
    ELSE IF packet.kind = "Data"
    THEN PendingData([s EXCEPT !.pending_clients = Remove(@, addr)],
                     s.pending_clients[addr], addr, packet)
    ELSE Out(s, SNone)

\* Handle pending client
PendingPacket(s, addr, packet) ==
    IF packet.kind = "Panic" THEN Panicked(s)
    ELSE IF packet.kind = "Err" THEN Failed(s, packet.err)
    ELSE PendingDispatch(
           [s EXCEPT !.pending_clients[addr].last_packet_received_time =
                        s.current_time],
           addr, packet)

\* Handle new client
NewPacket(s, addr, packet) ==
    IF packet.kind = "Panic" THEN Panicked(s)
    ELSE IF packet.kind = "Err" THEN Failed(s, packet.err)
    ELSE IF packet.kind = "ConnectionRequest"
    THEN IF packet.connection_side_id = 1
         THEN handle_connection_request(s, addr, packet.client_identifier)
         ELSE Out(s, SNone)
    ELSE IF packet.kind = "CreateSession"
    THEN Out(s, CreateSession(packet.session_id, packet.player_ids))
    ELSE Out(s, SNone)

\* packet is what Packet::decode makes of the buffer: a packet, an error or
\* a panic
process_packet_internal(s, addr, packet) ==
    IF find_client_mut_by_addr(s.clients, addr) # None
    THEN ConnectedPacket(s, find_client_mut_by_addr(s.clients, addr)[1], addr, packet)
    ELSE IF addr \in DOMAIN s.pending_clients
    THEN PendingPacket(s, addr, packet)
    ELSE NewPacket(s, addr, packet)

\* an error of the internal handler is logged and ServerResult::None returned
TransportServer_process_packet(s, addr, packet) ==
    process_packet_internal(s, addr, packet)

\* expires at expire_timestamp itself
Expired_Inclusive(current_time, c) == as_secs(current_time) >= c.expire_timestamp

\* if self.current_time.as_secs() > client.expire_timestamp
Expired(current_time, c) == as_secs(current_time) > c.expire_timestamp

TransportServer_update(s, duration) ==
    [s EXCEPT !.current_time = s.current_time + duration,
              !.pending_clients =
                  [a \in {b \in DOMAIN @ :
                            ~Expired(s.current_time + duration, @[b])} |-> @[a]]]

\* times out at last_packet_received_time + timeout itself
TimedOut_Inclusive(current_time, c) ==
    /\ c.timeout_seconds > 0
    /\ c.last_packet_received_time + from_secs(c.timeout_seconds) <= current_time

\* connection_timed_out
TimedOut(current_time, c) ==
    /\ c.timeout_seconds > 0
    /\ c.last_packet_received_time + from_secs(c.timeout_seconds) < current_time

\* sends a keep alive at every call
KeepAliveDue_Always(current_time, c) == TRUE

\* if client.last_packet_send_time + TRANSPORT_SEND_RATE <= self.current_time
KeepAliveDue(current_time, c) ==
    c.last_packet_send_time + TRANSPORT_SEND_RATE <= current_time

UpdateSlot(s, slot, client_id) ==
    IF TimedOut(s.current_time, s.clients[slot][1])
       \/ s.clients[slot][1].state = "Disconnected"
    THEN Out([s EXCEPT !.clients[slot] = None],
             ClientDisconnected(client_id, s.clients[slot][1].addr,
                                Some(TDisconnect(client_id))))
    ELSE IF KeepAliveDue(s.current_time, s.clients[slot][1])
    THEN Out([s EXCEPT !.clients[slot] =
                 Some([@[1] EXCEPT !.last_packet_send_time = s.current_time])],
             PacketToSend(s.clients[slot][1].addr, TKeepAlive(client_id)))
    ELSE Out(s, SNone)

update_client(s, client_id) ==
    IF find_client_slot_by_id(s.clients, client_id) = None THEN Out(s, SNone)
    ELSE UpdateSlot(s, find_client_slot_by_id(s.clients, client_id)[1], client_id)

TransportServer_disconnect(s, client_id) ==
    IF find_client_slot_by_id(s.clients, client_id) = None THEN Out(s, SNone)
    ELSE Out([s EXCEPT !.clients[find_client_slot_by_id(s.clients, client_id)[1]] =
                 None],
             ClientDisconnected(
                 client_id,
                 s.clients[find_client_slot_by_id(s.clients, client_id)[1]][1].addr,
                 Some(TDisconnect(client_id))))

\* stores the flag before the player id is known
AuthWrite_FlagOnly(cell, player_id) == [cell EXCEPT !.authenticated = TRUE]

\* authenticate_player on a 2xx answer: both fields under one lock
AuthWrite(cell, player_id) == [authenticated |-> TRUE, player_id |-> player_id]

----------------------------------------------------------------------------
(* A transport server, the datagrams of a few remote addresses and the      *)
(* validator tasks it spawns                                                *)

SrvAddrs == {"a1", "a2", "a3"}

SrvClientIds == {1, 2}

SrvDurations == {11000}

AuthPayload(player_id) == DataPayload(38, 0, 1, 0, player_id, "ok")

MalformedPayload == DataPayload(38, 0, 1, 1, "p01", "ok")

ShortPayload == DataPayload(3, 0, 1, 0, "", "ok")

RequestPackets == {TConnectionRequest(1, id) : id \in SrvClientIds}

HandshakePackets ==
    RequestPackets \cup {TData(id, AuthPayload("p01")) : id \in SrvClientIds}

SrvPackets ==
    HandshakePackets
    \cup {TErr("InvalidPacketType"), TPanic, TConnectionRequest(2, 1), TKeepAlive(1),
          TDisconnect(1), TData(1, MalformedPayload), TData(1, ShortPayload),
          TCreateSession(1, 7, <<"p01">>)}

SrvInit ==
    /\ overflow_checks = FALSE
    /\ panicked = NewPanics(SrvMaxClients)
    /\ sc = SendChannelReliable_new(1, ResendTime, SendMaxMemory)
    /\ rc = ReceiveChannelReliable_new(RecvMaxMemory)
    /\ now = 0
    /\ net = {}
    /\ sent_log = <<>>
    /\ recv_log = <<>>
    /\ ret = NoCall
    /\ client = NoClient
    /\ server = TransportServer_new(0, SrvMaxClients)
    /\ validators = NoValidators
    /\ transport = NoTransport
    /\ uc = NoChannel
    /\ denaria = NoWorkers
    /\ pc = NoThreads
    /\ hist = NoHistory

srvUnchanged ==
    <<overflow_checks, sc, rc, now, net, sent_log, recv_log, client, transport, uc, denaria, pc, hist>>

\* the tasks whose cell a pending entry still holds, and the one just spawned
NextValidators(v, s, addr, spawn) ==
    [a \in (DOMAIN v \cap DOMAIN s.pending_clients)
             \cup (IF spawn = None THEN {} ELSE {addr}) |->
        IF spawn # None /\ a = addr
        THEN [player_id |-> spawn[1], status |-> "running"]
        ELSE v[a]]

SrvProcessPacket(addr, packet) ==
    /\ ~panicked
    /\ LET r == TransportServer_process_packet(server, addr, packet)
       IN /\ server' = r.s
          /\ panicked' = r.panic
          /\ validators' = NextValidators(validators, r.s, addr, r.spawn)
          /\ ret' = [op |-> "process_packet", addr |-> addr, packet |-> packet,
                     res |-> r.res, err |-> r.err]
    /\ UNCHANGED srvUnchanged

SrvUpdate(duration) ==
    /\ ~panicked
    /\ server' = TransportServer_update(server, duration)
    /\ validators' = NextValidators(validators, server', "", None)
    /\ ret' = [op |-> "update", duration |-> duration]
    /\ UNCHANGED <<panicked, srvUnchanged>>

SrvUpdateClient(client_id) ==
    /\ ~panicked
    /\ LET r == update_client(server, client_id)
       IN /\ server' = r.s
          /\ ret' = [op |-> "update_client", client_id |-> client_id, res |-> r.res]
    /\ UNCHANGED <<panicked, validators, srvUnchanged>>

SrvDisconnect(client_id) ==
    /\ ~panicked
    /\ LET r == TransportServer_disconnect(server, client_id)
       IN /\ server' = r.s
          /\ ret' = [op |-> "disconnect", client_id |-> client_id, res |-> r.res]
    /\ UNCHANGED <<panicked, validators, srvUnchanged>>

SrvGeneratePayloadPacket(client_id, payload) ==
    /\ ~panicked
    /\ LET r == generate_payload_packet(server, client_id, payload)
       IN /\ server' = r.s
          /\ ret' = [op |-> "generate_payload_packet", client_id |-> client_id,
                     res |-> r.res]
    /\ UNCHANGED <<panicked, validators, srvUnchanged>>

\* the limits set_max_clients is called with, as steps from the number of
\* slots, which new fixed
SlotLimits(s, steps) ==
    {n \in {Cardinality(DOMAIN s.clients) + d : d \in steps} : n >= 0}

\* the limit is put back to the number of slots or raised above it
SrvLimitSteps == {0, 1}

SrvSetMaxClients(max_clients) ==
    /\ ~panicked
    /\ server' = set_max_clients(server, max_clients)
    /\ ret' = [op |-> "set_max_clients", max_clients |-> max_clients]
    /\ UNCHANGED <<panicked, validators, srvUnchanged>>

\* authenticate_player got a 2xx answer with a JSON body
ValidatorSucceeds(addr) ==
    /\ ~panicked
    /\ addr \in DOMAIN validators
    /\ validators[addr].status = "running"
    /\ server' = [server EXCEPT !.pending_clients[addr].is_authenticated =
                                   AuthWrite(@, validators[addr].player_id)]
    /\ validators' = [validators EXCEPT ![addr].status = "ok"]
    /\ ret' = [op |-> "authenticate_player", addr |-> addr, ok |-> TRUE]
    /\ UNCHANGED <<panicked, srvUnchanged>>

\* authenticate_player got anything else
ValidatorFails(addr) ==
    /\ ~panicked
    /\ addr \in DOMAIN validators
    /\ validators[addr].status = "running"
    /\ validators' = [validators EXCEPT ![addr].status = "failed"]
    /\ ret' = [op |-> "authenticate_player", addr |-> addr, ok |-> FALSE]
    /\ UNCHANGED <<panicked, server, srvUnchanged>>

SrvNext ==
    \/ \E addr \in SrvAddrs, packet \in SrvPackets :
          /\ addr = "a2" => packet \in HandshakePackets
          /\ addr = "a3" => packet \in RequestPackets
          /\ SrvProcessPacket(addr, packet)
    \/ \E duration \in SrvDurations :
          server.current_time + duration <= SrvMaxTime /\ SrvUpdate(duration)
    \/ \E client_id \in SrvClientIds : SrvUpdateClient(client_id)
    \/ \E client_id \in SrvClientIds : SrvDisconnect(client_id)
    \/ \E client_id \in SrvClientIds :
          SrvGeneratePayloadPacket(client_id, AuthPayload("p01"))
    \/ \E addr \in SrvAddrs : ValidatorSucceeds(addr)
    \/ \E addr \in SrvAddrs : ValidatorFails(addr)
    \/ \E max_clients \in SlotLimits(server, SrvLimitSteps) :
          SrvSetMaxClients(max_clients)

SpecSrv == SrvInit /\ [][SrvNext]_vars

\* the connections of the slot table and of the pending table
SlotEntries == {server.clients[i][1] : i \in OccupiedSlots(server.clients)}

PendingEntries == {server.pending_clients[a] : a \in DOMAIN server.pending_clients}

\* C14: a client_id and an address are each in at most one place among the
\* slots and the pending entries.
C14_UniquePresence ==
    /\ \A i, j \in OccupiedSlots(server.clients) :
          i # j => /\ server.clients[i][1].client_id # server.clients[j][1].client_id
                   /\ server.clients[i][1].addr # server.clients[j][1].addr
    /\ \A a, b \in DOMAIN server.pending_clients :
          a # b => /\ server.pending_clients[a].client_id #
                        server.pending_clients[b].client_id
                   /\ server.pending_clients[a].addr # server.pending_clients[b].addr
    /\ \A c \in SlotEntries, p \in PendingEntries :
          c.client_id # p.client_id /\ c.addr # p.addr

\* the part of C14 about addresses
C14_UniqueAddress ==
    /\ \A i, j \in OccupiedSlots(server.clients) :
          i # j => server.clients[i][1].addr # server.clients[j][1].addr
    /\ \A a \in DOMAIN server.pending_clients : server.pending_clients[a].addr = a
    /\ \A c \in SlotEntries : c.addr \notin DOMAIN server.pending_clients

\* the part of C14 about the client ids of the slots
C14_UniqueSlotId ==
    \A i, j \in OccupiedSlots(server.clients) :
        i # j => server.clients[i][1].client_id # server.clients[j][1].client_id

\* the call just made is process_packet(addr, packet) with a packet of this kind
Processed(kind) == ret'.op = "process_packet" /\ ret'.packet.kind = kind

\* addr has neither a slot nor a pending entry
Unknown(addr) ==
    /\ find_client_mut_by_addr(server.clients, addr) = None
    /\ addr \notin DOMAIN server.pending_clients

\* the request of a new address is accepted: a PendingResponse entry and the
\* reply ConnectionRequest(side 2, same id)
RequestAccepted ==
    /\ ret'.addr \in DOMAIN server'.pending_clients
    /\ server'.pending_clients[ret'.addr] =
          NewConnection(ret'.addr, ret'.packet.client_identifier, server.current_time)
    /\ ret'.res = PacketToSend(ret'.addr,
                               TConnectionRequest(2, ret'.packet.client_identifier))

\* the preamble is accepted: Authenticating, a validator for the preamble's
\* player id, the reply KeepAlive
PreambleAccepted ==
    /\ ret'.addr \in DOMAIN server'.pending_clients
    /\ server'.pending_clients[ret'.addr].state = "Authenticating"
    /\ validators'[ret'.addr] =
          [player_id |-> ret'.packet.payload.player_id, status |-> "running"]
    /\ ret'.res = PacketToSend(ret'.addr, TKeepAlive(ret'.packet.client_identifier))

\* the client is connected: out of the pending table, in the first free slot,
\* ClientConnected with the entry's client id and the validated player id
ClientSlotted ==
    /\ ret'.addr \notin DOMAIN server'.pending_clients
    /\ \E i \in DOMAIN server.clients :
          /\ server.clients[i] = None
          /\ \A j \in DOMAIN server.clients : j < i => server.clients[j] # None
          /\ server'.clients[i] # None
          /\ server'.clients[i][1].state = "Connected"
          /\ server'.clients[i][1].addr = ret'.addr
          /\ server'.clients[i][1].client_id =
                server.pending_clients[ret'.addr].client_id
          /\ \A j \in DOMAIN server.clients :
                j # i => server'.clients[j] = server.clients[j]
    /\ ret'.res.kind = "ClientConnected"
    /\ ret'.res.client_id = server.pending_clients[ret'.addr].client_id
    /\ ret'.res.addr = ret'.addr
    /\ ret'.res.player_id = validators[ret'.addr].player_id

PendingIn(state) ==
    /\ ret'.addr \in DOMAIN server.pending_clients
    /\ server.pending_clients[ret'.addr].state = state

Validated ==
    /\ PendingIn("Authenticating")
    /\ server.pending_clients[ret'.addr].is_authenticated.authenticated

\* C15: the three steps of the handshake: a request from an unknown address
\* is accepted; a Data packet with a valid preamble is accepted; the first
\* Data packet after the validation connects the client in the first free slot.
C15_FullHandshake ==
    [][/\ (Processed("ConnectionRequest") /\ ret'.packet.connection_side_id = 1
              /\ Unknown(ret'.addr))
          => RequestAccepted
       /\ (Processed("Data") /\ PendingIn("PendingResponse")
              /\ AuthPreamble(ret'.packet.payload) = "Ok")
          => PreambleAccepted
       /\ (Processed("Data") /\ Validated) => ClientSlotted]_vars

\* C15 as amended: the request is accepted when its client id has no slot, the
\* pending table is below its capacity and the slot table is not full; the
\* client is connected when the client id of the Data packet has no slot and
\* a slot is free.
C15_HandshakeWhenRoom ==
    [][/\ (Processed("ConnectionRequest") /\ ret'.packet.connection_side_id = 1
              /\ Unknown(ret'.addr)
              /\ find_client_slot_by_id(server.clients,
                                        ret'.packet.client_identifier) = None
              /\ Cardinality(DOMAIN server.pending_clients) < MaxPending
              /\ Cardinality(OccupiedSlots(server.clients)) < server.max_clients)
          => RequestAccepted
       /\ (Processed("Data") /\ PendingIn("PendingResponse")
              /\ AuthPreamble(ret'.packet.payload) = "Ok")
          => PreambleAccepted
       /\ (Processed("Data") /\ Validated
              /\ find_client_slot_by_id(server.clients,
                                        ret'.packet.client_identifier) = None
              /\ FreeSlot(server.clients) # None)
          => ClientSlotted]_vars

\* a client was just connected in slot 0 while slot 1 was taken
C15_Witness ==
    /\ ret.op = "process_packet"
    /\ ret.res.kind = "ClientConnected"
    /\ server.clients[0] # None
    /\ server.clients[0][1].addr = ret.addr
    /\ server.clients[1] # None

\* C16: a slot is filled, and ClientConnected returned, only for a pending
\* entry whose own validator stored authenticated = true; while the cell is
\* false a Data packet leaves the entry pending and Authenticating, with no
\* reply; a cell that reads authenticated holds the player id its validator
\* was given, and that is the id ClientConnected carries.
C16_AuthGate ==
    /\ [](\A a \in DOMAIN server.pending_clients :
            server.pending_clients[a].is_authenticated.authenticated =>
              /\ a \in DOMAIN validators
              /\ validators[a].status = "ok"
              /\ server.pending_clients[a].is_authenticated.player_id =
                    validators[a].player_id)
    /\ [][/\ ((\E i \in DOMAIN server.clients :
                  server.clients[i] = None /\ server'.clients[i] # None)
              \/ (ret'.op = "process_packet" /\ ret'.res.kind = "ClientConnected"))
             => /\ Processed("Data")
                /\ Validated
                /\ validators[ret'.addr].status = "ok"
                /\ ret'.res.kind = "ClientConnected"
                /\ ret'.res.player_id = validators[ret'.addr].player_id
          /\ (Processed("Data") /\ PendingIn("Authenticating") /\ ~Validated)
             => /\ ret'.res = SNone
                /\ ret'.addr \in DOMAIN server'.pending_clients
                /\ server'.pending_clients[ret'.addr] =
                      [server.pending_clients[ret'.addr] EXCEPT
                         !.last_packet_received_time = server.current_time]
                /\ server'.clients = server.clients]_vars

\* a Data packet found the cell of its address still false, after another
\* client had been validated and connected
C16_Witness ==
    /\ ret.op = "process_packet"
    /\ ret.packet.kind = "Data"
    /\ ret.res = SNone
    /\ ret.addr \in DOMAIN server.pending_clients
    /\ server.pending_clients[ret.addr].state = "Authenticating"
    /\ ~server.pending_clients[ret.addr].is_authenticated.authenticated
    /\ OccupiedSlots(server.clients) # {}

\* C17: the pending table never holds more than its capacity; a
\* ConnectionRequest from an address without a pending entry that arrives at
\* capacity changes nothing in the pending table and gets no reply.
C17_PendingCap ==
    /\ [](Cardinality(DOMAIN server.pending_clients) <= MaxPending)
    /\ [][(/\ Processed("ConnectionRequest")
           /\ ret'.addr \notin DOMAIN server.pending_clients
           /\ Cardinality(DOMAIN server.pending_clients) >= MaxPending)
          => /\ server'.pending_clients = server.pending_clients
             /\ ret'.res = SNone]_vars

\* a request was dropped for the capacity alone: no slot is taken
C17_Witness ==
    /\ ret.op = "process_packet"
    /\ ret.packet.kind = "ConnectionRequest"
    /\ ret.packet.connection_side_id = 1
    /\ ret.res = SNone
    /\ ret.addr \notin DOMAIN server.pending_clients
    /\ Cardinality(DOMAIN server.pending_clients) = MaxPending
    /\ OccupiedSlots(server.clients) = {}

----------------------------------------------------------------------------
(* The transport server over the ten seconds of a handshake and of a silent *)
(* client: one address that can go through the handshake, one that only     *)
(* asks for a connection                                                    *)

ExpDurations == {5000, 6000}

ExpPackets ==
    {TErr("InvalidPacketType"), TConnectionRequest(1, 1),
     TData(1, AuthPayload("p01")), TKeepAlive(1)}

ExpNext ==
    \/ \E packet \in ExpPackets : SrvProcessPacket("a1", packet)
    \/ SrvProcessPacket("a2", TConnectionRequest(1, 2))
    \/ \E duration \in ExpDurations :
          server.current_time + duration <= ExpMaxTime /\ SrvUpdate(duration)
    \/ SrvUpdateClient(1)
    \/ SrvDisconnect(1)
    \/ SrvGeneratePayloadPacket(1, AuthPayload("p01"))
    \/ ValidatorSucceeds("a1")
    \/ ValidatorFails("a1")

SpecExp == SrvInit /\ [][ExpNext]_vars

\* the entry of address a was created by this step
Created(a) ==
    a \notin DOMAIN server.pending_clients /\ a \in DOMAIN server'.pending_clients

\* the entry of address a stays through this step
Stays(a) ==
    a \in DOMAIN server.pending_clients /\ a \in DOMAIN server'.pending_clients

\* C18: an entry created at time t expires at t + 10 s: update removes it, in
\* either state, as soon as current_time is t + 10 s or later, and not before;
\* no packet from its address moves the expiry.
C18_ExpiryAtTenSeconds ==
    [][/\ \A a \in SrvAddrs :
            Created(a) =>
               from_secs(server'.pending_clients[a].expire_timestamp) =
                  server.current_time + from_secs(10)
       /\ \A a \in SrvAddrs :
            Stays(a) => server'.pending_clients[a].expire_timestamp =
                           server.pending_clients[a].expire_timestamp
       /\ ret'.op = "update" =>
            \A a \in DOMAIN server.pending_clients :
               a \notin DOMAIN server'.pending_clients <=>
                  server'.current_time >=
                     from_secs(server.pending_clients[a].expire_timestamp)]_vars

\* what update does: the entry goes once the whole seconds of current_time
\* exceed expire_timestamp, that is from t + 11 s on for a whole t
C18_ExpiryAfterTenSeconds ==
    [][/\ \A a \in SrvAddrs :
            Created(a) =>
               server'.pending_clients[a].expire_timestamp =
                  as_secs(server.current_time) + 10
       /\ \A a \in SrvAddrs :
            Stays(a) => server'.pending_clients[a].expire_timestamp =
                           server.pending_clients[a].expire_timestamp
       /\ ret'.op = "update" =>
            \A a \in DOMAIN server.pending_clients :
               a \notin DOMAIN server'.pending_clients <=>
                  as_secs(server'.current_time) >
                     server.pending_clients[a].expire_timestamp]_vars

\* update left an Authenticating entry in the table ten seconds after its creation
C18_KeptAtTenSeconds ==
    /\ ret.op = "update"
    /\ \E a \in DOMAIN server.pending_clients :
          /\ server.pending_clients[a].state = "Authenticating"
          /\ server.current_time =
                from_secs(server.pending_clients[a].expire_timestamp)

\* the transport loop calls update and then update_client for every connected
\* client at every tick
SpecExpLive ==
    /\ SpecExp
    /\ WF_vars(\E duration \in ExpDurations :
                  server.current_time + duration <= ExpMaxTime /\ SrvUpdate(duration))
    /\ WF_vars(SrvUpdateClient(1))

\* slot i holds the same client before and after this step
SlotStays(i) ==
    /\ server.clients[i] # None
    /\ server'.clients[i] # None
    /\ server'.clients[i][1].addr = server.clients[i][1].addr

\* client 1 is in a slot and the last packet from it arrived at time t
SilentSince(t) ==
    \E c \in SlotEntries : c.client_id = 1 /\ c.last_packet_received_time = t

\* the arrival times after which the clock of a run can still pass the timeout
ExpSilentTimes ==
    {t \in {0} \cup ExpDurations :
       \E duration \in ExpDurations : t + from_secs(10) + duration <= ExpMaxTime}

\* update_client on a connected client: the slot as it was, and the answer
C19_TimeoutStep ==
    (/\ ret'.op = "update_client"
     /\ find_client_slot_by_id(server.clients, ret'.client_id) # None) =>
       LET slot == find_client_slot_by_id(server.clients, ret'.client_id)[1]
           c == server.clients[slot][1]
       IN (c.last_packet_received_time + from_secs(c.timeout_seconds)
              < server.current_time)
          <=> (/\ ret'.res = ClientDisconnected(ret'.client_id, c.addr,
                                                Some(TDisconnect(ret'.client_id)))
               /\ server'.clients[slot] = None)

\* last_packet_received_time is the time of the last decodable packet
C19_LastReceived ==
    \A i \in DOMAIN server.clients :
       SlotStays(i) =>
          server'.clients[i][1].last_packet_received_time =
             IF /\ ret'.op = "process_packet"
                /\ ret'.addr = server.clients[i][1].addr
                /\ ret'.packet.kind # "Err"
             THEN server.current_time
             ELSE server.clients[i][1].last_packet_received_time

\* C19: update_client frees the slot of a connected client and returns
\* ClientDisconnected with a Disconnect datagram exactly when last_recv +
\* timeout_seconds < now, last_recv being the time of the last decodable packet
\* from the client; a client that stays silent is removed once update has
\* advanced the time past that.
C19_Timeout ==
    /\ [][C19_TimeoutStep /\ C19_LastReceived]_vars
    /\ \A t \in ExpSilentTimes : SilentSince(t) ~> ~SilentSince(t)

\* update_client has just removed client 1 for its silence
C19_Witness ==
    /\ ret.op = "update_client"
    /\ ret.res.kind = "ClientDisconnected"
    /\ ret.res.payload = Some(TDisconnect(1))
    /\ find_client_slot_by_id(server.clients, 1) = None
    /\ server.current_time > from_secs(10)

----------------------------------------------------------------------------
(* The transport server over a few send periods: one client, ticks of half  *)
(* a period and of a whole one                                              *)

KaDurations == {125, 250}

\* a payload that does not fit the send buffer with its header
OversizedPayload == DataPayload(TRANSPORT_MAX_PACKET_BYTES, 0, 1, 0, "p01", "ok")

KaPackets ==
    {TConnectionRequest(1, 1), TData(1, AuthPayload("p01")), TKeepAlive(1)}

KaNext ==
    \/ \E packet \in KaPackets : SrvProcessPacket("a1", packet)
    \/ \E duration \in KaDurations :
          server.current_time + duration <= KaMaxTime /\ SrvUpdate(duration)
    \/ SrvUpdateClient(1)
    \/ \E payload \in {AuthPayload("p01"), OversizedPayload} :
          SrvGeneratePayloadPacket(1, payload)
    \/ ValidatorSucceeds("a1")
    \/ ValidatorFails("a1")

SpecKa == SrvInit /\ [][KaNext]_vars

\* this step hands the caller a datagram for address addr
DatagramTo(addr) ==
    /\ ret'.op \in {"process_packet", "update_client", "generate_payload_packet"}
    /\ \/ ret'.res.kind \in {"PacketToSend", "Ok"} /\ ret'.res.addr = addr
       \/ ret'.res.kind = "ClientConnected" /\ ret'.res.addr = addr

\* update_client on a connected client that has not timed out
C20_KeepAliveStep ==
    (/\ ret'.op = "update_client"
     /\ find_client_slot_by_id(server.clients, ret'.client_id) # None) =>
       LET slot == find_client_slot_by_id(server.clients, ret'.client_id)[1]
           c == server.clients[slot][1]
       IN ~(c.last_packet_received_time + from_secs(c.timeout_seconds)
               < server.current_time) =>
            IF c.last_packet_send_time + TRANSPORT_SEND_RATE <= server.current_time
            THEN /\ ret'.res = PacketToSend(c.addr, TKeepAlive(ret'.client_id))
                 /\ server'.clients[slot] # None
                 /\ server'.clients[slot][1].last_packet_send_time =
                       server.current_time
            ELSE ret'.res = SNone /\ server' = server

\* every datagram for a client that is connected after the step is stamped
C20_SendStamped ==
    \A i \in DOMAIN server'.clients :
       (server'.clients[i] # None /\ DatagramTo(server'.clients[i][1].addr)) =>
          server'.clients[i][1].last_packet_send_time = server'.current_time

\* C20: for a connected client that has not timed out, update_client emits a
\* KeepAlive datagram iff last_send + 250 ms <= now and then sets last_send =
\* now; generate_payload_packet and every other datagram for the client set
\* last_send = now too, so that no KeepAlive comes less than 250 ms after a
\* datagram.
C20_KeepAlive == [][C20_KeepAliveStep /\ C20_SendStamped]_vars

\* a KeepAlive went out more than a send period after the start, and was stamped
C20_Witness ==
    /\ ret.op = "update_client"
    /\ ret.res.kind = "PacketToSend"
    /\ ret.res.payload = TKeepAlive(1)
    /\ server.current_time > TRANSPORT_SEND_RATE
    /\ \E c \in SlotEntries :
          c.client_id = 1 /\ c.last_packet_send_time = server.current_time

----------------------------------------------------------------------------
(* server/transport/transport.rs: the dispatcher between the socket, the    *)
(* transport server and the session workers. A Sender is the index of its   *)
(* channel in channels; a channel holds the messages not yet received.      *)

\* ToDenariaServerMessage
ToClientConnected(client_id, addr, payload, player_id) ==
    [kind |-> "ClientConnected", client_id |-> client_id, addr |-> addr,
     payload |-> payload, player_id |-> player_id]
ToClientDisconnected(client_id) ==
    [kind |-> "ClientDisconnected", client_id |-> client_id]
ToPayload(client_id, payload) ==
    [kind |-> "Payload", client_id |-> client_id, payload |-> payload]

\* FromDenariaServerMessage
SendPacket(client_id, packets) == [client_id |-> client_id, packets |-> packets]

\* socket is what the last step of the dispatcher wrote with send_to, in order
ServerTransport_new ==
    [player_id_session_map |-> EmptyMap,
     session_to_denaria_server_tx |-> EmptyMap,
     client_id_to_server_tx_map |-> EmptyMap,
     from_denaria_server |-> <<>>,
     channels |-> <<>>,
     socket |-> <<>>]

\* sender.send(message)
ChannelSend(t, sender, message) ==
    [t EXCEPT !.channels[sender] = Append(@, message)]

\* socket.send_to(packet, addr)
send_packet(t, payload, addr) ==
    [t EXCEPT !.socket = Append(@, [addr |-> addr, payload |-> payload])]

SeqRange(q) == {q[k] : k \in 1..Len(q)}

create_session(t, id, player_ids) ==
    [t EXCEPT !.channels = Append(@, <<>>),
              !.player_id_session_map =
                  [p \in DOMAIN @ \cup SeqRange(player_ids) |->
                     IF p \in SeqRange(player_ids) THEN id ELSE @[p]],
              !.session_to_denaria_server_tx = Insert(@, id, Len(t.channels) + 1)]

\* self.client_id_to_server_tx_map.insert(server_id, sender)
register_server(t, server_id, sender) ==
    [t EXCEPT !.client_id_to_server_tx_map = Insert(@, server_id, sender)]

\* every payload goes to the first channel
ForwardPayload_FirstChannel(t, res) ==
    IF res.client_id \in DOMAIN t.client_id_to_server_tx_map
    THEN ChannelSend(t, 1, ToPayload(res.client_id, res.payload))
    ELSE t

\* ServerResult::Payload
ForwardPayload(t, res) ==
    IF res.client_id \in DOMAIN t.client_id_to_server_tx_map
    THEN ChannelSend(t, t.client_id_to_server_tx_map[res.client_id],
                     ToPayload(res.client_id, res.payload))
    ELSE t

\* ServerResult::ClientConnected, the player's session having a sender
ConnectedToSession(t, res, sender) ==
    [ChannelSend(t, sender,
                 ToClientConnected(res.client_id, res.addr, res.payload,
                                   res.player_id))
       EXCEPT !.client_id_to_server_tx_map = Insert(@, res.client_id, sender)]

\* ServerResult::ClientConnected
ForwardConnected(t, res) ==
    IF res.player_id \notin DOMAIN t.player_id_session_map THEN t
    ELSE IF t.player_id_session_map[res.player_id]
               \notin DOMAIN t.session_to_denaria_server_tx
    THEN send_packet(t, res.payload, res.addr)
    ELSE send_packet(
           ConnectedToSession(
              t, res,
              t.session_to_denaria_server_tx[
                  t.player_id_session_map[res.player_id]]),
           res.payload, res.addr)

\* if let Some(payload) = payload { send_packet(payload, addr) }
SendIfSome(t, payload, addr) ==
    IF payload = None THEN t ELSE send_packet(t, payload[1], addr)

\* ServerResult::ClientDisconnected
ForwardDisconnected(t, res) ==
    SendIfSome(
       IF res.client_id \in DOMAIN t.client_id_to_server_tx_map
       THEN ChannelSend(t, t.client_id_to_server_tx_map[res.client_id],
                        ToClientDisconnected(res.client_id))
       ELSE t,
       res.payload, res.addr)

\* returns [t, new_session]
handle_server_result(t, res) ==
    IF res.kind = "PacketToSend"
    THEN [t |-> send_packet(t, res.payload, res.addr), new_session |-> None]
    ELSE IF res.kind = "Payload"
    THEN [t |-> ForwardPayload(t, res), new_session |-> None]
    ELSE IF res.kind = "ClientConnected"
    THEN [t |-> ForwardConnected(t, res), new_session |-> None]
    ELSE IF res.kind = "ClientDisconnected"
    THEN [t |-> ForwardDisconnected(t, res), new_session |-> None]
    ELSE IF res.kind = "CreateSession"
    THEN [t |-> t,
          new_session |-> Some([id |-> res.id, player_ids |-> res.player_ids])]
    ELSE [t |-> t, new_session |-> None]

\* if let Some(new_session_details) = handle_server_result(..) { create_session }
AfterResult(h) ==
    IF h.new_session = None THEN h.t
    ELSE create_session(h.t, h.new_session[1].id, h.new_session[1].player_ids)

\* st is [s, t, v, panic]: the transport server, the dispatcher, the
\* validator tasks and whether the call has panicked. A panic of
\* process_packet leaves the transport server as the panicking call left it.
AfterProcessPacket(st, addr, r) ==
    [s |-> r.s,
     t |-> IF r.panic THEN st.t
           ELSE AfterResult(handle_server_result(st.t, r.res)),
     v |-> NextValidators(st.v, r.s, addr, r.spawn),
     panic |-> r.panic]

\* one turn of the recv_from loop: Ok((len, addr))
RecvDatagram(st, datagram) ==
    AfterProcessPacket(
       st, datagram.addr,
       TransportServer_process_packet(st.s, datagram.addr, datagram.packet))

\* the io::ErrorKind of a failed recv_from; PermissionDenied stands for every
\* kind the loop has no arm for
RecvErrors == {"WouldBlock", "Interrupted", "ConnectionReset", "PermissionDenied"}

RECURSIVE ClientsIdFrom(_, _)
ClientsIdFrom(clients, i) ==
    IF i \notin DOMAIN clients THEN <<>>
    ELSE (IF clients[i] = None THEN <<>> ELSE <<clients[i][1].client_id>>)
            \o ClientsIdFrom(clients, i + 1)

clients_id(s) == ClientsIdFrom(s.clients, 0)

\* a loop over the client ids that clients_id returned when it began, ids
\* being those still to come
InLoop(at, ids) == IF ids = <<>> THEN Idle ELSE [at |-> at, ids |-> ids]

\* where update goes on after a failed recv_from: WouldBlock and Interrupted
\* break the loop, ConnectionReset starts its next turn, any other error is
\* returned at once
AfterRecvError(kind, s) ==
    IF kind \in {"WouldBlock", "Interrupted"}
    THEN InLoop("update_client", clients_id(s))
    ELSE IF kind = "ConnectionReset" THEN [at |-> "recv_from"]
    ELSE Idle

\* one turn of the loop over clients_id in update
AfterUpdateClient(st, r) ==
    [st EXCEPT !.s = r.s, !.t = handle_server_result(st.t, r.res).t]

\* self.transport_server.update(duration)
AfterServerUpdate(st, s) ==
    [st EXCEPT !.s = s, !.v = NextValidators(st.v, s, "", None)]

\* the notification disconnect_all sends itself, before handle_server_result
NotifyDisconnected(t, client_id) ==
    IF client_id \in DOMAIN t.client_id_to_server_tx_map
    THEN ChannelSend(t, t.client_id_to_server_tx_map[client_id],
                     ToClientDisconnected(client_id))
    ELSE t

AfterDisconnect(st, client_id, r) ==
    [st EXCEPT !.s = r.s,
               !.t = handle_server_result(NotifyDisconnected(st.t, client_id),
                                          r.res).t]

\* for packet in packets { match generate_payload_packet .. { Ok => { send_to;
\* break } Err => break } }
SendBatch(st, client_id, packets) ==
    IF packets = <<>> THEN st
    ELSE IF generate_payload_packet(st.s, client_id, Head(packets)).res.kind = "Ok"
    THEN [st EXCEPT
            !.s = generate_payload_packet(st.s, client_id, Head(packets)).s,
            !.t = send_packet(
                     st.t,
                     generate_payload_packet(st.s, client_id,
                                             Head(packets)).res.payload,
                     generate_payload_packet(st.s, client_id,
                                             Head(packets)).res.addr)]
    ELSE st

ServerTransport_send_message(st, message) ==
    SendBatch(st, message.client_id, message.packets)

\* try_recv gave Ok(message)
TryRecv(st) ==
    [st EXCEPT !.t.from_denaria_server = Tail(@)]

\* one turn of the loop of handle_messages: Ok(message) => send_message
handle_message(st) ==
    ServerTransport_send_message(TryRecv(st), Head(st.t.from_denaria_server))

----------------------------------------------------------------------------
(* The dispatcher with one client address, one address that creates the     *)
(* sessions, and the session workers at the other end of the channels       *)

DspDurations == {0, 11000}

\* a payload of the application, no auth preamble
AppPayload == DataPayload(5, 0, 1, 2, "", "ok")

Datagram(addr, packet) == [addr |-> addr, packet |-> packet]

\* what recv_from gives in one turn of the loop of update
DspDatagrams ==
    {Datagram("a1", TConnectionRequest(1, 1)),
     Datagram("a1", TData(1, AuthPayload("p01"))),
     Datagram("a1", TData(1, AppPayload)),
     Datagram("a1", TData(1, ShortPayload)),
     Datagram("a1", TDisconnect(1)),
     Datagram("a1", TPanic),
     Datagram("a3", TCreateSession(0, 1, <<"p01">>)),
     Datagram("a3", TCreateSession(0, 2, <<"p01">>))}

\* the batches a worker hands over for a client
DspBatches ==
    {<<[data |-> "a", len |-> 1], [data |-> "b", len |-> 2]>>,
     <<[data |-> "b", len |-> 2]>>}

DspInit ==
    /\ overflow_checks = FALSE
    /\ panicked = NewPanics(SrvMaxClients)
    /\ sc = SendChannelReliable_new(1, ResendTime, SendMaxMemory)
    /\ rc = ReceiveChannelReliable_new(RecvMaxMemory)
    /\ now = 0
    /\ net = {}
    /\ sent_log = <<>>
    /\ recv_log = <<>>
    /\ ret = NoCall
    /\ client = NoClient
    /\ server = TransportServer_new(0, SrvMaxClients)
    /\ validators = NoValidators
    /\ transport = ServerTransport_new
    /\ uc = NoChannel
    /\ denaria = NoWorkers
    /\ pc = NoThreads
    /\ hist = NoHistory

dspUnchanged ==
    <<overflow_checks, sc, rc, now, net, sent_log, recv_log, client, uc, denaria>>

\* the state a step of the dispatcher starts from: nothing written yet
DspState ==
    [s |-> server, t |-> [transport EXCEPT !.socket = <<>>], v |-> validators,
     panic |-> FALSE]

\* the messages a step that began at t and ended at u put on channel k
AppendedTo(t, u, k) ==
    SubSeq(u.channels[k], Len(t.channels[k]) + 1, Len(u.channels[k]))

\* the pairs <<client_id, k>> of the ClientConnected messages the step put on
\* a channel k
ConnectedOn(t, u) ==
    {<<AppendedTo(t, u, k)[n].client_id, k>> :
        <<k, n>> \in {e \in (1..Len(t.channels)) \X (1..MaxQueue) :
                        /\ e[2] <= Len(AppendedTo(t, u, e[1]))
                        /\ AppendedTo(t, u, e[1])[e[2]].kind = "ClientConnected"}}

\* f with the pairs <<key, value>> of S written over it
Overwritten(f, S) ==
    [j \in DOMAIN f \cup {e[1] : e \in S} |->
        IF \E e \in S : e[1] = j THEN (CHOOSE e \in S : e[1] = j)[2] ELSE f[j]]

\* a turn of the recv_from loop ended with a call of create_session: the
\* datagram is a CreateSession datagram and a worker was spawned with a channel
SessionMade(t, u, call) ==
    /\ call.op = "recv_from"
    /\ "datagram" \in DOMAIN call
    /\ call.datagram.packet.kind = "CreateSession"
    /\ Len(u.channels) = Len(t.channels) + 1

\* the history after a step of the dispatcher that began at t, ended at u and
\* returns call
Chronicle(h, t, u, call) ==
    LET id == call.datagram.packet.session_id
        roster == SeqRange(call.datagram.packet.player_ids)
        joined == Overwritten(h.joined, ConnectedOn(t, u))
        recorded == Overwritten(h.recorded, ConnectedOn(t, u))
    IN IF SessionMade(t, u, call)
       THEN [rosters |-> Insert(h.rosters, id,
                                (IF id \in DOMAIN h.rosters THEN h.rosters[id]
                                 ELSE {}) \cup roster),
             named |-> Overwritten(h.named, {<<p, id>> : p \in roster}),
             opened |-> Insert(h.opened, id, Len(u.channels)),
             joined |-> joined,
             recorded |-> recorded]
       ELSE IF call.op = "register_server"
       THEN [h EXCEPT !.recorded = Insert(@, call.server_id, call.sender)]
       ELSE [h EXCEPT !.joined = joined, !.recorded = recorded]

\* no channel holds more than the bound, no more channels than the bound
DspWithinBounds(t) ==
    /\ Len(t.channels) <= MaxSessions
    /\ \A i \in 1..Len(t.channels) : Len(t.channels[i]) <= MaxQueue

\* the dispatcher goes on at next
DspReturn(st, next, call) ==
    /\ DspWithinBounds(st.t)
    /\ server' = st.s
    /\ transport' = st.t
    /\ validators' = st.v
    /\ panicked' = st.panic
    /\ pc' = [pc EXCEPT !.dispatcher = next]
    /\ ret' = call
    /\ hist' = Chronicle(hist, transport, st.t, call)
    /\ UNCHANGED dspUnchanged

\* ServerTransport::update as far as its recv_from loop
DspUpdate(duration) ==
    /\ ~panicked
    /\ pc.dispatcher = Idle
    /\ DspReturn(AfterServerUpdate(DspState,
                                   TransportServer_update(server, duration)),
                 [at |-> "recv_from"],
                 [op |-> "transport_update", duration |-> duration])

\* one turn of the loop: recv_from gives a datagram
DspRecvFrom(datagram) ==
    /\ ~panicked
    /\ pc.dispatcher.at = "recv_from"
    /\ DspReturn(RecvDatagram(DspState, datagram), pc.dispatcher,
                 [op |-> "recv_from", datagram |-> datagram])

\* one turn of the loop: recv_from fails
DspRecvError(kind) ==
    /\ ~panicked
    /\ pc.dispatcher.at = "recv_from"
    /\ DspReturn(DspState, AfterRecvError(kind, server),
                 [op |-> "recv_from", error |-> kind])

\* one turn of the loop over clients_id that ends update
DspUpdateClient ==
    /\ ~panicked
    /\ pc.dispatcher.at = "update_client"
    /\ DspReturn(AfterUpdateClient(DspState,
                                   update_client(server, Head(pc.dispatcher.ids))),
                 InLoop("update_client", Tail(pc.dispatcher.ids)),
                 [op |-> "transport_update_client",
                  client_id |-> Head(pc.dispatcher.ids)])

\* one turn of the loop of handle_messages: the 10 ms are not over and
\* try_recv gives a message; the first turn is the one that begins the call
DspSendMessage ==
    /\ ~panicked
    /\ pc.dispatcher.at \in {"idle", "try_recv"}
    /\ transport.from_denaria_server # <<>>
    /\ DspReturn(handle_message(DspState), [at |-> "try_recv"],
                 [op |-> "send_message",
                  message |-> Head(transport.from_denaria_server)])

\* the loop of handle_messages ends: the 10 ms are over, or try_recv says
\* Empty or Disconnected
DspSendPackets(reason) ==
    /\ ~panicked
    /\ pc.dispatcher.at = "try_recv"
    /\ reason = "Empty" => transport.from_denaria_server = <<>>
    /\ DspReturn(DspState, Idle, [op |-> "send_packets", reason |-> reason])

\* disconnect_all as far as its loop over clients_id
DspDisconnectAll ==
    /\ ~panicked
    /\ pc.dispatcher = Idle
    /\ DspReturn(DspState, InLoop("disconnect", clients_id(server)),
                 [op |-> "disconnect_all"])

\* one turn of the loop of disconnect_all
DspDisconnectClient ==
    /\ ~panicked
    /\ pc.dispatcher.at = "disconnect"
    /\ DspReturn(AfterDisconnect(
                    DspState, Head(pc.dispatcher.ids),
                    TransportServer_disconnect(server, Head(pc.dispatcher.ids))),
                 InLoop("disconnect", Tail(pc.dispatcher.ids)),
                 [op |-> "disconnect_client",
                  client_id |-> Head(pc.dispatcher.ids)])

\* register_server with a sender the caller made with unbounded(): the channel
\* is a new one, the senders of the sessions being out of the caller's reach
DspRegisterServer(server_id) ==
    /\ ~panicked
    /\ pc.dispatcher = Idle
    /\ DspReturn([DspState EXCEPT
                    !.t = register_server(
                             [@ EXCEPT !.channels = Append(@, <<>>)],
                             server_id, Len(transport.channels) + 1)],
                 Idle,
                 [op |-> "register_server", server_id |-> server_id,
                  sender |-> Len(transport.channels) + 1])

\* update is called with a duration that keeps the clock within its bound
DspUpdateCall ==
    \E duration \in DspDurations :
       server.current_time + duration <= DspMaxTime /\ DspUpdate(duration)

\* self.to_transport_server_tx.send(SendPacket{client_id, packets})
send_packets_to_server_transport(t, client_id, packets) ==
    [t EXCEPT !.from_denaria_server = Append(@, SendPacket(client_id, packets))]

\* DenariaServer::send_packets_to_server_transport in a worker, with packets
\* of the caller's choice. The channel has no capacity in the code: the runs
\* stop adding to it at MaxQueue waiting messages.
WorkerSendPacket(client_id, packets) ==
    /\ ~panicked
    /\ Len(transport.from_denaria_server) < MaxQueue
    /\ transport' = send_packets_to_server_transport(transport, client_id, packets)
    /\ ret' = [op |-> "worker_send", client_id |-> client_id, packets |-> packets]
    /\ UNCHANGED <<panicked, server, validators, pc, hist, dspUnchanged>>

\* the worker of channel sender takes the next message
WorkerReceive(sender) ==
    /\ ~panicked
    /\ sender \in 1..Len(transport.channels)
    /\ transport.channels[sender] # <<>>
    /\ transport' = [transport EXCEPT !.channels[sender] = Tail(@)]
    /\ ret' = [op |-> "worker_receive", sender |-> sender,
               message |-> Head(transport.channels[sender])]
    /\ UNCHANGED <<panicked, server, validators, pc, hist, dspUnchanged>>

DspNext ==
    \/ DspUpdateCall
    \/ \E datagram \in DspDatagrams : DspRecvFrom(datagram)
    \/ \E kind \in RecvErrors : DspRecvError(kind)
    \/ DspUpdateClient
    \/ DspDisconnectAll
    \/ DspDisconnectClient
    \/ DspRegisterServer(1)
    \/ \E sender \in 1..MaxSessions : WorkerReceive(sender)
    \/ ValidatorSucceeds("a1")
    \/ ValidatorFails("a1")

SpecDsp == DspInit /\ [][DspNext]_vars

\* what recv_from gives in one turn, in the runs about sending
OutDatagrams ==
    {Datagram("a1", TConnectionRequest(1, 1)),
     Datagram("a1", TData(1, AuthPayload("p01"))),
     Datagram("a1", TDisconnect(1)),
     Datagram("a3", TCreateSession(0, 1, <<"p01">>))}

\* the workers hand batches over, the dispatcher sends them
OutNext ==
    \/ DspUpdate(0)
    \/ \E datagram \in OutDatagrams : DspRecvFrom(datagram)
    \/ DspRecvError("WouldBlock")
    \/ DspUpdateClient
    \/ DspSendMessage
    \/ \E reason \in {"Empty", "TimeLimit"} : DspSendPackets(reason)
    \/ \E packets \in DspBatches : WorkerSendPacket(1, packets)
    \/ WorkerReceive(1)
    \/ ValidatorSucceeds("a1")

SpecOut == DspInit /\ [][OutNext]_vars

\* what this step put on channel k
Appended(k) ==
    SubSeq(transport'.channels[k], Len(transport.channels[k]) + 1,
           Len(transport'.channels[k]))

\* this step only added to the channels that existed
ChannelsGrow ==
    \A k \in 1..Len(transport.channels) :
       /\ Len(transport'.channels[k]) >= Len(transport.channels[k])
       /\ SubSeq(transport'.channels[k], 1, Len(transport.channels[k])) =
             transport.channels[k]

\* this step put a ClientConnected for client_id on some channel
ConnectedForwarded(client_id) ==
    \E k \in 1..Len(transport.channels) :
       \E n \in 1..Len(Appended(k)) :
          /\ Appended(k)[n].kind = "ClientConnected"
          /\ Appended(k)[n].client_id = client_id

\* the ClientConnected message m, put on channel k, is recorded for its client
RecordedOn(m, k) ==
    /\ m.client_id \in DOMAIN transport'.client_id_to_server_tx_map
    /\ transport'.client_id_to_server_tx_map[m.client_id] = k

\* the n-th message this step put on channel k is where C21 says: a
\* ClientConnected on the channel of every session created with its player, a
\* Payload on the channel of the ClientConnected message of its client
RoutedAsStated(k, n) ==
    LET m == Appended(k)[n]
    IN /\ m.kind = "ClientConnected" =>
            /\ \A id \in DOMAIN hist.rosters :
                  m.player_id \in hist.rosters[id] => hist.opened[id] = k
            /\ RecordedOn(m, k)
       /\ (m.kind = "Payload" /\ m.client_id \in DOMAIN hist.joined) =>
            hist.joined[m.client_id] = k

\* the n-th message this step put on channel k is where the amended C21 says:
\* a ClientConnected on the channel of the session that named its player last,
\* a Payload on the channel recorded for its client last, by a ClientConnected
\* message or by register_server
RoutedAsRecorded(k, n) ==
    LET m == Appended(k)[n]
    IN /\ m.kind = "ClientConnected" =>
            /\ m.player_id \in DOMAIN hist.named
            /\ hist.opened[hist.named[m.player_id]] = k
            /\ RecordedOn(m, k)
       /\ m.kind = "Payload" =>
            /\ m.client_id \in DOMAIN hist.recorded
            /\ hist.recorded[m.client_id] = k

\* the client that takes slot i in this step with a player that a session
\* was created with is announced
AnnouncedSlot(i) ==
    (/\ server.clients[i] = None
     /\ server'.clients[i] # None
     /\ server'.clients[i][1].is_authenticated.player_id \in DOMAIN hist.named) =>
       ConnectedForwarded(server'.clients[i][1].client_id)

\* the payload of the datagram if it is a Data datagram of address addr
PayloadsFrom(datagram, addr, client_id) ==
    IF datagram.addr = addr /\ datagram.packet.kind = "Data"
    THEN <<ToPayload(client_id, datagram.packet.payload)>>
    ELSE <<>>

\* a client connected before the turn and after it, senders holding a channel
\* for it, has the payload of the datagram put last on that channel, and
\* nothing else
ForwardedInOrder(i, senders) ==
    (/\ server.clients[i] # None
     /\ server'.clients[i] # None
     /\ server.clients[i][1].client_id \in DOMAIN senders) =>
       Appended(senders[server.clients[i][1].client_id])
          = PayloadsFrom(ret'.datagram, server.clients[i][1].addr,
                         server.clients[i][1].client_id)

\* recv_from gave a datagram and process_packet returned
Received == ret'.op = "recv_from" /\ "datagram" \in DOMAIN ret' /\ ~panicked'

\* a step of the dispatcher thread
DispatcherStep ==
    ret'.op \in {"transport_update", "recv_from", "transport_update_client",
                 "send_message", "send_packets", "disconnect_all",
                 "disconnect_client", "register_server"}

\* C21 as stated: once CreateSession{id, roster} has been handled, a
\* ClientConnected for a player of the roster is put on the channel of the
\* sender registered for session id and that sender is recorded for the
\* client_id; every later Payload for the client_id is put on that channel, and
\* on no other, in arrival order and after the ClientConnected message.
C21_SessionRouting ==
    [][/\ DispatcherStep =>
          /\ ChannelsGrow
          /\ \A k \in 1..Len(transport.channels) :
                \A n \in 1..Len(Appended(k)) : RoutedAsStated(k, n)
          /\ \A i \in DOMAIN server.clients : AnnouncedSlot(i)
       /\ Received =>
             \A i \in DOMAIN server.clients : ForwardedInOrder(i, hist.joined)]_vars

\* C21, amended: a ClientConnected for a player is put on the channel of the
\* sender registered for the session whose CreateSession named the player
\* last, and that sender is recorded for the client_id; every later Payload for
\* the client_id is put on the channel recorded for it last, and on no other,
\* in arrival order: the channel of that ClientConnected message until a later
\* ClientConnected for the client_id or a call of register_server with the
\* client_id records another sender.
C21_LatestRecordRouting ==
    [][/\ DispatcherStep =>
          /\ ChannelsGrow
          /\ \A k \in 1..Len(transport.channels) :
                \A n \in 1..Len(Appended(k)) : RoutedAsRecorded(k, n)
          /\ \A i \in DOMAIN server.clients : AnnouncedSlot(i)
       /\ Received =>
             \A i \in DOMAIN server.clients :
                ForwardedInOrder(i, hist.recorded)]_vars

\* the client joined a session, register_server recorded another sender for
\* its client_id, and its payload went to the channel of that sender
C21_Witness ==
    /\ ret.op = "recv_from"
    /\ "datagram" \in DOMAIN ret
    /\ ret.datagram = Datagram("a1", TData(1, AppPayload))
    /\ 1 \in DOMAIN hist.joined
    /\ hist.joined[1] = 1
    /\ hist.recorded[1] = 2
    /\ transport.channels[2] = <<ToPayload(1, AppPayload)>>

\* C22: when the transport server reports ClientDisconnected for a client
\* (Disconnect packet, idle timeout or disconnect_all) the dispatcher forwards
\* ClientDisconnected to that client's session worker and removes the
\* client_id from the client_id -> sender map, so that the map holds no entry
\* for a client_id that is not in the slot table.
C22_DisconnectEvicts ==
    /\ [](\A client_id \in DOMAIN transport.client_id_to_server_tx_map :
             find_client_slot_by_id(server.clients, client_id) # None)
    /\ [][\A i \in DOMAIN server.clients :
             (/\ server.clients[i] # None
              /\ server'.clients[i] = None
              /\ server.clients[i][1].client_id
                    \in DOMAIN transport.client_id_to_server_tx_map) =>
                \E n \in 1..Len(Appended(transport.client_id_to_server_tx_map[
                                            server.clients[i][1].client_id])) :
                   Appended(transport.client_id_to_server_tx_map[
                               server.clients[i][1].client_id])[n] =
                      ToClientDisconnected(server.clients[i][1].client_id)]_vars

\* the forwarding alone: a recorded client that leaves its slot is reported
\* to its session worker
C22_DisconnectForwarded ==
    [][\A i \in DOMAIN server.clients :
          (/\ server.clients[i] # None
           /\ server'.clients[i] = None
           /\ server.clients[i][1].client_id
                 \in DOMAIN transport.client_id_to_server_tx_map) =>
             \E n \in 1..Len(Appended(transport.client_id_to_server_tx_map[
                                         server.clients[i][1].client_id])) :
                Appended(transport.client_id_to_server_tx_map[
                            server.clients[i][1].client_id])[n] =
                   ToClientDisconnected(server.clients[i][1].client_id)]_vars

\* a client has left and its sender is still recorded
C22_StaleSender ==
    /\ ret.op \in {"recv_from", "transport_update_client", "disconnect_client"}
    /\ 1 \in DOMAIN transport.client_id_to_server_tx_map
    /\ find_client_slot_by_id(server.clients, 1) = None

\* the Data datagrams of a batch for a client in the slot table, none for
\* another client
BatchDatagrams(s, client_id, packets) ==
    IF find_client_slot_by_id(s.clients, client_id) = None THEN <<>>
    ELSE [k \in 1..Len(packets) |->
            [addr |-> s.clients[find_client_slot_by_id(s.clients,
                                                       client_id)[1]][1].addr,
             payload |-> TData(client_id, packets[k])]]

FirstOnly(q) == IF q = <<>> THEN <<>> ELSE <<Head(q)>>

\* a turn of handle_messages takes the message the workers enqueued first
TakesHead ==
    /\ ret'.message = Head(transport.from_denaria_server)
    /\ transport'.from_denaria_server = Tail(transport.from_denaria_server)

\* C23: for every SendPacket{client_id, packets} handled while client_id is in
\* the slot table, each packet of the batch is written to the socket as one
\* Data datagram addressed to that client, in batch order, and the datagrams
\* of successive messages leave in the order the worker enqueued them.
C23_BatchesSent ==
    [][ret'.op = "send_message" =>
          /\ TakesHead
          /\ transport'.socket =
                BatchDatagrams(server, ret'.message.client_id,
                               ret'.message.packets)]_vars

\* what send_message does: the first packet of the batch, the messages in
\* queue order
C23_FirstPacketsSent ==
    [][ret'.op = "send_message" =>
          /\ TakesHead
          /\ transport'.socket =
                FirstOnly(BatchDatagrams(server, ret'.message.client_id,
                                         ret'.message.packets))]_vars

\* a batch of two packets for a connected client was handled and one
\* datagram written
C23_SecondPacketLost ==
    /\ ret.op = "send_message"
    /\ Len(ret.message.packets) = 2
    /\ find_client_slot_by_id(server.clients, 1) # None
    /\ Len(transport.socket) = 1
    /\ transport.socket[1].payload = TData(1, [data |-> "a", len |-> 1])

\* a worker queued a message while a call of send_packets was in its loop
C23_QueuedWhileSending ==
    /\ ret.op = "worker_send"
    /\ pc.dispatcher.at = "try_recv"

----------------------------------------------------------------------------
(* The channel-level frame decoders: server/packet.rs reads with a Cursor   *)
(* (little-endian, fixed widths), packet.rs with octets (big-endian,        *)
(* variable-length integers). A buffer is a sequence of bytes, pos the      *)
(* number of bytes already read.                                            *)

DecodeErr(err) == [kind |-> "Err", err |-> err]

\* n more bytes can be read
Avail(b, pos, n) == pos + n <= Len(b)

\* the n bytes after pos as a little-endian integer
RECURSIVE LittleEndian(_, _, _)
LittleEndian(b, pos, n) ==
    IF n = 0 THEN 0 ELSE b[pos + 1] + 256 * LittleEndian(b, pos + 1, n - 1)

\* the n bytes after pos as a big-endian integer
RECURSIVE BigEndian(_, _, _)
BigEndian(b, pos, n) ==
    IF n = 0 THEN 0 ELSE 256 * BigEndian(b, pos, n - 1) + b[pos + n]

\* octets::varint_parse_len
varint_parse_len(first) ==
    IF first \div 64 = 0 THEN 1
    ELSE IF first \div 64 = 1 THEN 2
    ELSE IF first \div 64 = 2 THEN 4
    ELSE 8

\* the bytes after pos hold a whole variable-length integer
VarintAvail(b, pos) == Avail(b, pos, 1) /\ Avail(b, pos, varint_parse_len(b[pos + 1]))

\* octets::get_varint: the value without the two length bits
VarintValue(b, pos) ==
    BigEndian([b EXCEPT ![pos + 1] = @ % 64], pos, varint_parse_len(b[pos + 1]))

\* server/packet.rs, channel 0: u16 length, bytes
RECURSIVE ServerUnreliableMessages(_, _, _, _)
ServerUnreliableMessages(b, pos, count, messages) ==
    IF count = 0 THEN [kind |-> "Ok", messages |-> messages]
    ELSE IF ~Avail(b, pos, 2) THEN DecodeErr("CursorReadError")
    ELSE IF ~Avail(b, pos + 2, LittleEndian(b, pos, 2))
    THEN DecodeErr("CursorReadError")
    ELSE ServerUnreliableMessages(
            b, pos + 2 + LittleEndian(b, pos, 2), count - 1,
            Append(messages,
                   SubSeq(b, pos + 3, pos + 2 + LittleEndian(b, pos, 2))))

\* server/packet.rs, channel 1, packet type 0: u64 id, u16 length, bytes
RECURSIVE ServerReliableMessages(_, _, _, _)
ServerReliableMessages(b, pos, count, messages) ==
    IF count = 0 THEN [kind |-> "Ok", messages |-> messages]
    ELSE IF ~Avail(b, pos, 10) THEN DecodeErr("CursorReadError")
    ELSE IF ~Avail(b, pos + 10, LittleEndian(b, pos + 8, 2))
    THEN DecodeErr("CursorReadError")
    ELSE ServerReliableMessages(
            b, pos + 10 + LittleEndian(b, pos + 8, 2), count - 1,
            Append(messages,
                   <<LittleEndian(b, pos, 8),
                     SubSeq(b, pos + 11, pos + 10 + LittleEndian(b, pos + 8, 2))>>))

\* the fields both packets of channel 1 start with; get is the integer reader
ReliableHeader(b, get(_, _, _)) ==
    [channel_id |-> 1,
     packet_type |-> get(b, 1, 2),
     packet_process_time |-> get(b, 3, 2),
     sequence_id |-> get(b, 5, 2),
     acked_seq_id |-> get(b, 7, 2),
     acked_mask |-> get(b, 9, 4)]

WithMessages(kind, fields, r) ==
    IF r.kind = "Err" THEN r
    ELSE [kind |-> kind, fields |-> fields, messages |-> r.messages]

\* server/packet.rs: Packet::from_bytes
ServerPacket_from_bytes(b) ==
    IF ~Avail(b, 0, 1) THEN DecodeErr("CursorReadError")
    ELSE IF b[1] = 0
    THEN IF ~Avail(b, 1, 2) THEN DecodeErr("CursorReadError")
         ELSE WithMessages("SmallUnreliable", [channel_id |-> 0],
                           ServerUnreliableMessages(b, 3, LittleEndian(b, 1, 2),
                                                    <<>>))
    ELSE IF b[1] = 1
    THEN IF ~Avail(b, 1, 12) THEN DecodeErr("CursorReadError")
         ELSE IF LittleEndian(b, 1, 2) = 0
         THEN IF ~Avail(b, 13, 2) THEN DecodeErr("CursorReadError")
              ELSE WithMessages("SmallReliable", ReliableHeader(b, LittleEndian),
                                ServerReliableMessages(
                                   b, 15, LittleEndian(b, 13, 2), <<>>))
         ELSE IF LittleEndian(b, 1, 2) = 1
         THEN IF ~Avail(b, 13, 1) THEN DecodeErr("CursorReadError")
              ELSE [kind |-> "Ack", fields |-> ReliableHeader(b, LittleEndian),
                    end_posfix |-> b[14]]
         ELSE DecodeErr("InvalidPacketType")
    ELSE DecodeErr("InvalidChannelId")

\* packet.rs, channel 0: get_bytes_with_varint_length
RECURSIVE UnreliableMessages(_, _, _, _)
UnreliableMessages(b, pos, count, messages) ==
    IF count = 0 THEN [kind |-> "Ok", messages |-> messages]
    ELSE IF ~VarintAvail(b, pos) THEN DecodeErr("BufferTooShort")
    ELSE IF ~Avail(b, pos + varint_parse_len(b[pos + 1]), VarintValue(b, pos))
    THEN DecodeErr("BufferTooShort")
    ELSE UnreliableMessages(
            b, pos + varint_parse_len(b[pos + 1]) + VarintValue(b, pos), count - 1,
            Append(messages,
                   SubSeq(b, pos + varint_parse_len(b[pos + 1]) + 1,
                          pos + varint_parse_len(b[pos + 1]) + VarintValue(b, pos))))

\* packet.rs, channel 1, packet type 0: get_varint, then
\* get_bytes_with_varint_length; at is the position after the message id
ReliableMessageAt(b, pos, at) ==
    IF ~VarintAvail(b, at) THEN DecodeErr("BufferTooShort")
    ELSE IF ~Avail(b, at + varint_parse_len(b[at + 1]), VarintValue(b, at))
    THEN DecodeErr("BufferTooShort")
    ELSE [kind |-> "Ok",
          next |-> at + varint_parse_len(b[at + 1]) + VarintValue(b, at),
          message |-> <<VarintValue(b, pos),
                        SubSeq(b, at + varint_parse_len(b[at + 1]) + 1,
                               at + varint_parse_len(b[at + 1])
                                  + VarintValue(b, at))>>]

RECURSIVE ReliableMessages(_, _, _, _)
ReliableMessagesNext(b, count, messages, m) ==
    IF m.kind = "Err" THEN m
    ELSE ReliableMessages(b, m.next, count - 1, Append(messages, m.message))

ReliableMessages(b, pos, count, messages) ==
    IF count = 0 THEN [kind |-> "Ok", messages |-> messages]
    ELSE IF ~VarintAvail(b, pos) THEN DecodeErr("BufferTooShort")
    ELSE ReliableMessagesNext(
            b, count, messages,
            ReliableMessageAt(b, pos, pos + varint_parse_len(b[pos + 1])))

\* packet.rs: Packet::from_bytes
Packet_from_bytes(b) ==
    IF ~Avail(b, 0, 1) THEN DecodeErr("BufferTooShort")
    ELSE IF b[1] = 0
    THEN IF ~Avail(b, 1, 2) THEN DecodeErr("BufferTooShort")
         ELSE WithMessages("SmallUnreliable", [channel_id |-> 0],
                           UnreliableMessages(b, 3, BigEndian(b, 1, 2), <<>>))
    ELSE IF b[1] = 1
    THEN IF ~Avail(b, 1, 12) THEN DecodeErr("BufferTooShort")
         ELSE IF BigEndian(b, 1, 2) = 0
         THEN IF ~Avail(b, 13, 2) THEN DecodeErr("BufferTooShort")
              ELSE WithMessages("SmallReliable", ReliableHeader(b, BigEndian),
                                ReliableMessages(b, 15, BigEndian(b, 13, 2), <<>>))
         ELSE IF BigEndian(b, 1, 2) = 1
         THEN IF ~Avail(b, 13, 1) THEN DecodeErr("BufferTooShort")
              ELSE [kind |-> "Ack", fields |-> ReliableHeader(b, BigEndian),
                    end_posfix |-> b[14]]
         ELSE DecodeErr("InvalidPacketType")
    ELSE DecodeErr("InvalidChannelId")

\* whole frames in the layout of server/packet.rs: two unreliable messages,
\* one reliable message, an ack, an unknown packet type, unknown channels
ServerFrames ==
    {<<0, 2, 0, 1, 0, 7, 2, 0, 8, 9>>,
     <<1, 0, 0, 5, 0, 3, 0, 2, 0, 1, 0, 0, 0, 1, 0,
       4, 0, 0, 0, 0, 0, 0, 0, 2, 0, 8, 9>>,
     <<1, 1, 0, 5, 0, 3, 0, 2, 0, 1, 0, 0, 0, 0>>,
     <<1, 2, 0, 5, 0, 3, 0, 2, 0, 1, 0, 0, 0, 0>>,
     <<2, 0, 0>>,
     <<255>>}

\* the same in the layout of packet.rs, the second reliable message with a
\* two-byte message id
ClientFrames ==
    {<<0, 0, 2, 1, 7, 2, 8, 9>>,
     <<1, 0, 0, 0, 5, 0, 3, 0, 2, 0, 0, 0, 1, 0, 2,
       4, 2, 8, 9, 64, 70, 1, 5>>,
     <<1, 0, 1, 0, 5, 0, 3, 0, 2, 0, 0, 0, 1, 0>>,
     <<1, 0, 2, 0, 5, 0, 3, 0, 2, 0, 0, 0, 1, 0>>,
     <<2, 0, 0>>,
     <<255>>}

CodecInit ==
    /\ overflow_checks = FALSE
    /\ panicked = FALSE
    /\ sc = SendChannelReliable_new(1, ResendTime, SendMaxMemory)
    /\ rc = ReceiveChannelReliable_new(RecvMaxMemory)
    /\ now = 0
    /\ net = {}
    /\ sent_log = <<>>
    /\ recv_log = <<>>
    /\ ret = NoCall
    /\ client = NoClient
    /\ server = NoServer
    /\ validators = NoValidators
    /\ transport = NoTransport
    /\ uc = NoChannel
    /\ denaria = NoWorkers
    /\ pc = NoThreads
    /\ hist = NoHistory

codecUnchanged ==
    <<overflow_checks, panicked, sc, rc, now, net, sent_log, recv_log, client, server, validators, transport, uc, denaria, pc, hist>>

\* server/packet.rs decodes the first n bytes of a frame
ServerFromBytes(full, n) ==
    /\ ret' = [op |-> "server_from_bytes", full |-> full, n |-> n,
               packet_type |-> IF n >= 3 THEN LittleEndian(full, 1, 2) ELSE 0,
               res |-> ServerPacket_from_bytes(SubSeq(full, 1, n))]
    /\ UNCHANGED codecUnchanged

\* packet.rs decodes the first n bytes of a frame
FromBytes(full, n) ==
    /\ ret' = [op |-> "from_bytes", full |-> full, n |-> n,
               packet_type |-> IF n >= 3 THEN BigEndian(full, 1, 2) ELSE 0,
               res |-> Packet_from_bytes(SubSeq(full, 1, n))]
    /\ UNCHANGED codecUnchanged

CodecNext ==
    \/ \E full \in ServerFrames : \E n \in 0..Len(full) : ServerFromBytes(full, n)
    \/ \E full \in ClientFrames : \E n \in 0..Len(full) : FromBytes(full, n)

SpecCodec == CodecInit /\ [][CodecNext]_vars

\* the bytes of the channel id and of the fields every packet of channel 1
\* starts with
ReliableHeaderLen == 13

\* the frame of the last call has an unknown channel id as its first byte
UnknownChannel == ret.n >= 1 /\ ret.full[1] \notin {0, 1}

\* it is a frame of channel 1 with its header and an unknown packet type
UnknownPacketType ==
    ret.n >= ReliableHeaderLen /\ ret.full[1] = 1 /\ ret.packet_type \notin {0, 1}

\* it stops before the end of the fields or messages it declares
TruncatedFrame ==
    ret.n < Len(ret.full) /\ ~UnknownChannel /\ ~UnknownPacketType

\* what the claim says of a decoder whose calls are recorded as op
Rejects(op, too_short) ==
    ret.op = op =>
       /\ UnknownChannel => ret.res = DecodeErr("InvalidChannelId")
       /\ UnknownPacketType => ret.res = DecodeErr("InvalidPacketType")
       /\ TruncatedFrame => ret.res = DecodeErr(too_short)
       /\ (UnknownChannel \/ UnknownPacketType \/ TruncatedFrame) <=>
             ret.res.kind = "Err"

\* C24: decoding a channel-level frame returns InvalidChannelId for a first
\* byte other than 0 or 1, InvalidPacketType for a frame of channel 1 whose
\* packet type is neither 0 nor 1, BufferTooShort for a frame truncated
\* before the end of its declared fields or messages, in both decoders; no
\* truncated or unknown frame decodes to a packet.
C24_DecodeErrors ==
    Rejects("server_from_bytes", "BufferTooShort")
       /\ Rejects("from_bytes", "BufferTooShort")

\* packet.rs does as claimed
C24_ClientDecodeErrors == Rejects("from_bytes", "BufferTooShort")

\* server/packet.rs reports a truncation as CursorReadError
C24_ServerDecodeErrors == Rejects("server_from_bytes", "CursorReadError")

\* server/packet.rs was given a frame cut inside its second message
C24_ServerTruncated ==
    /\ ret.op = "server_from_bytes"
    /\ ret.full[1] = 0
    /\ ret.n = Len(ret.full) - 1
    /\ ret.res = DecodeErr("CursorReadError")

----------------------------------------------------------------------------
(* The send tick of a connection and its reliable channel *)

\* the unacked reliable messages that were never sent and fit the tick's budget
FirstSendDue(c) ==
    {id \in DOMAIN c.send_reliable_channel.unacked_messages :
        LET m == c.send_reliable_channel.unacked_messages[id]
        IN /\ m.last_sent = None
           /\ m.message.len <= c.available_bytes_per_tick}

\* the message ids a list of packets carries in SmallReliable packets
ReliableIdsIn(packets) ==
    {MessageId(packets[i].messages[j]) :
        <<i, j>> \in {p \in (1..Len(packets)) \X (1..ConnMaxMessages) :
                        /\ packets[p[1]].kind = "SmallReliable"
                        /\ p[2] <= Len(packets[p[1]].messages)}}

\* the message ids sent_packets records
RecordedIds(c) ==
    {c.sent_packets[s].message_ids[j] :
        <<s, j>> \in {p \in (DOMAIN c.sent_packets) \X (1..ConnMaxMessages) :
                        p[2] <= Len(c.sent_packets[p[1]].message_ids)}}

\* C25: a send tick of a connection that is not disconnected, with nothing
\* queued on the unreliable channel, returns the lowest never-sent reliable
\* message that fits the budget in a SmallReliable packet and records its
\* message id in sent_packets.
C25_ReliableEmitted ==
    [][(/\ ret'.op = "get_packets_to_send"
        /\ ~is_disconnected(client)
        /\ client.send_unreliable_channel.unreliable_messages = <<>>
        /\ FirstSendDue(client) # {})
       => /\ ~panicked'
          /\ Min(FirstSendDue(client)) \in ReliableIdsIn(ret'.packets)
          /\ Min(FirstSendDue(client)) \in RecordedIds(client')]_vars


\* a reliable payload packet whose sequence id is not pending reaches a
\* connection that is not disconnected
NewReliableArrives ==
    /\ ret'.op = "process_packet"
    /\ ret'.packet.kind = "SmallReliable"
    /\ ~is_disconnected(client)
    /\ ret'.packet.sequence_id \notin Range(client.pending_acks)

Ascending(q) == \A i, j \in 1..Len(q) : i < j => q[i] < q[j]

\* pending_acks after the sequence id s joined it: s is in it, in ascending
\* order, and the oldest id made room when the queue was full
Joined(before, after, s) ==
    /\ Ascending(after)
    /\ Len(after) <= 32
    /\ Range(after) = {s} \cup Range(IF Len(before) >= 32 THEN Tail(before) ELSE before)

\* C26: a reliable payload packet whose sequence id s is not pending adds s to
\* pending_acks and sets new_ack_to_send, whatever s is relative to the pending
\* ids; pending_acks stays ascending, holds at most 32 ids and loses its oldest
\* id when it is full.
C26_PendingAckAdded ==
    [][NewReliableArrives
       => /\ ~panicked'
          /\ client'.new_ack_to_send
          /\ Joined(client.pending_acks, client'.pending_acks,
                    ret'.packet.sequence_id)]_vars

\* C27: on a connection whose pending_acks is empty, the first reliable payload
\* packet is processed without failure and leaves pending_acks holding exactly
\* its sequence id, with new_ack_to_send set.
C27_FirstReliablePacket ==
    [][(/\ ret'.op = "process_packet"
        /\ ret'.packet.kind = "SmallReliable"
        /\ ~is_disconnected(client)
        /\ client.pending_acks = <<>>)
       => /\ ~panicked'
          /\ client'.pending_acks = <<ret'.packet.sequence_id>>
          /\ client'.new_ack_to_send]_vars

----------------------------------------------------------------------------
(* The two send channels filling packets of at most MAX_MESSAGES_LENGTH.     *)
(* The channels share nothing, so a run drives one of them: the unreliable   *)
(* one when Init made it, the reliable one otherwise.                        *)

PackMaxMessages == 3    \* messages accepted per channel
PackMemory == 2400      \* max_memory_usage_bytes of both channels

\* lengths around the half and the whole of MAX_MESSAGES_LENGTH
PackPayloads ==
    {[data |-> "a", len |-> 1], [data |-> "h", len |-> 600],
     [data |-> "w", len |-> 1197], [data |-> "x", len |-> 1198],
     [data |-> "y", len |-> 1199]}

PackBudgets == {1200, 2400}

PackInit ==
    /\ overflow_checks \in BOOLEAN
    /\ panicked = FALSE
    /\ sc = SendChannelReliable_new(1, ResendTime, PackMemory)
    /\ rc = ReceiveChannelReliable_new(RecvMaxMemory)
    /\ now = 0
    /\ net = {}
    /\ sent_log = <<>>
    /\ recv_log = <<>>
    /\ ret = NoCall
    /\ client = NoClient
    /\ server = NoServer
    /\ validators = NoValidators
    /\ transport = NoTransport
    /\ uc \in {NoChannel, SendChannelUnreliable_new(0, PackMemory)}
    /\ denaria = NoWorkers
    /\ pc = NoThreads
    /\ hist = NoHistory

ucUnchanged ==
    <<overflow_checks, panicked, sc, rc, now, net, sent_log, recv_log, client, server, validators, transport, denaria, pc, hist>>

UnreliableSendMessage(m) ==
    /\ ~panicked
    /\ uc' = unreliable_send_message(uc, m)
    /\ ret' = [op |-> "unreliable_send_message", message |-> m]
    /\ UNCHANGED ucUnchanged

UnreliableGetPacketsToSend(b) ==
    /\ ~panicked
    /\ LET r == unreliable_get_packets_to_send(uc, b)
       IN /\ uc' = r.ch
          /\ ret' = [op |-> "unreliable_get_packets_to_send", available_bytes |-> b,
                     queued |-> Len(uc.unreliable_messages),
                     packets |-> r.packets, available_bytes_out |-> r.available_bytes]
    /\ UNCHANGED ucUnchanged

PackNext ==
    \/ \E m \in PackPayloads :
          /\ uc = NoChannel
          /\ sc.next_message_id < PackMaxMessages
          /\ SendMessage(m)
    \/ \E b \in PackBudgets : uc = NoChannel /\ GetPacketsToSend(b)
    \/ \E m \in PackPayloads :
          /\ uc # NoChannel
          /\ Len(uc.unreliable_messages) < PackMaxMessages
          /\ UnreliableSendMessage(m)
    \/ \E b \in PackBudgets : uc # NoChannel /\ UnreliableGetPacketsToSend(b)

SpecPack == PackInit /\ [][PackNext]_vars

\* the serialized size of a message in a packet of the reliable channel
ReliableSize(entry) ==
    entry[2].len + varint_len(entry[2].len) + varint_len(entry[1])

\* the same in a packet of the unreliable channel
UnreliableSize(message) == message.len + varint_len(message.len)

RECURSIVE SizeOf(_, _)
SizeOf(messages, reliable) ==
    IF messages = <<>> THEN 0
    ELSE (IF reliable THEN ReliableSize(Head(messages)) ELSE UnreliableSize(Head(messages)))
         + SizeOf(Tail(messages), reliable)

\* the messages of the packets, one after the other
RECURSIVE Flatten(_)
Flatten(packets) ==
    IF packets = <<>> THEN <<>>
    ELSE Head(packets).messages \o Flatten(Tail(packets))

\* no packet is empty or over the cap, and a packet was closed only because
\* the first message of the next one did not fit in it
PackedUnderCap(packets, reliable) ==
    /\ \A i \in 1..Len(packets) :
          /\ packets[i].messages # <<>>
          /\ SizeOf(packets[i].messages, reliable) <= MAX_MESSAGES_LENGTH
    /\ \A i \in 1..(Len(packets) - 1) :
          SizeOf(packets[i].messages, reliable)
            + SizeOf(<<packets[i + 1].messages[1]>>, reliable) > MAX_MESSAGES_LENGTH

\* the messages of the queue that the budget admits, in queue order
RECURSIVE Admitted(_, _)
Admitted(queue, available_bytes) ==
    IF queue = <<>> THEN <<>>
    ELSE IF available_bytes < Head(queue).len THEN Admitted(Tail(queue), available_bytes)
    ELSE <<Head(queue)>> \o Admitted(Tail(queue), available_bytes - Head(queue).len)

\* C31: when every queued message has a serialized size of at most
\* MAX_MESSAGES_LENGTH, the packets a send channel returns each carry at most
\* MAX_MESSAGES_LENGTH of serialized messages, a packet is closed when the next
\* message would not fit, and the messages run across the packets in the
\* order of the queue (the message ids, for the reliable channel).
C31_PacketsUnderCap ==
    [][/\ (/\ ret'.op = "get_packets_to_send"
           /\ ~ret'.panic
           /\ \A id \in DOMAIN sc.unacked_messages :
                 ReliableSize(<<id, sc.unacked_messages[id].message>>)
                    <= MAX_MESSAGES_LENGTH)
          => /\ PackedUnderCap(ret'.packets, TRUE)
             /\ LET sent == Flatten(ret'.packets)
                IN \A i, j \in 1..Len(sent) : i < j => sent[i][1] < sent[j][1]
       /\ (/\ ret'.op = "unreliable_get_packets_to_send"
           /\ \A i \in 1..Len(uc.unreliable_messages) :
                 UnreliableSize(uc.unreliable_messages[i]) <= MAX_MESSAGES_LENGTH)
          => /\ PackedUnderCap(ret'.packets, FALSE)
             /\ Flatten(ret'.packets)
                  = Admitted(uc.unreliable_messages, ret'.available_bytes)]_vars

\* a call of the reliable channel returned two packets, the first one closed
\* for a message that did not fit
C31_Witness ==
    /\ ret.op = "get_packets_to_send"
    /\ Len(ret.packets) = 2
    /\ Len(ret.packets[1].messages) = 2
    /\ Len(Flatten(ret.packets)) = 3

RECURSIVE QueueBytes(_)
QueueBytes(queue) ==
    IF queue = <<>> THEN 0 ELSE Head(queue).len + QueueBytes(Tail(queue))

\* C32: the unreliable send channel counts in memory_usage_bytes exactly the
\* lengths of its queued messages and stays within its cap; a send_message
\* over the cap leaves the queue as it was; get_packets_to_send empties the
\* queue and the count whatever the budget, returning in enqueue order the
\* messages the budget admits and dropping the others.
C32_UnreliableQueue ==
    /\ [](uc # NoChannel =>
            /\ uc.memory_usage_bytes = QueueBytes(uc.unreliable_messages)
            /\ uc.memory_usage_bytes <= uc.max_memory_usage_bytes)
    /\ [][/\ ret'.op = "unreliable_send_message" =>
               uc'.unreliable_messages =
                  IF uc.memory_usage_bytes + ret'.message.len > uc.max_memory_usage_bytes
                  THEN uc.unreliable_messages
                  ELSE Append(uc.unreliable_messages, ret'.message)
          /\ ret'.op = "unreliable_get_packets_to_send" =>
               /\ uc'.unreliable_messages = <<>>
               /\ uc'.memory_usage_bytes = 0
               /\ Flatten(ret'.packets)
                    = Admitted(uc.unreliable_messages, ret'.available_bytes)]_vars

\* three messages were queued, the budget admitted two of them and the third
\* was dropped: the queue is empty
C32_Witness ==
    /\ ret.op = "unreliable_get_packets_to_send"
    /\ ret.queued = 3
    /\ Len(Flatten(ret.packets)) = 2
    /\ uc.unreliable_messages = <<>>
    /\ uc.memory_usage_bytes = 0

----------------------------------------------------------------------------
(* Errors of the channels and of the handshake *)

\* send_message on the reliable channel of a live connection, refused by the
\* memory cap of the send channel
ReliableSendRefused ==
    /\ ret'.op = "send_message"
    /\ ret'.channel_id = 1
    /\ ~is_disconnected(client)
    /\ send_message(client.send_reliable_channel, ret'.message).res
         = "ReliableChannelMaxMemoryReached"

\* C33 as stated: a reliable send_message refused for the memory cap of the
\* send channel leaves the connection in the status it had.
C33_SendErrorKeepsStatus ==
    [][ReliableSendRefused
       => client'.connection_status = client.connection_status]_vars

\* C33, amended: the refused send_message disconnects the connection with
\* SendChannelError for channel 1 and queues nothing; a message the
\* unreliable send channel refuses is dropped and the status stays.
C33_SendErrorDisconnects ==
    [][/\ ReliableSendRefused
          => /\ client'.connection_status = Disconnected("SendChannelError", 1)
             /\ client'.send_reliable_channel = client.send_reliable_channel
             /\ ~panicked'
       /\ (/\ ret'.op = "send_message"
           /\ ret'.channel_id = 0
           /\ client.send_unreliable_channel.memory_usage_bytes + ret'.message.len
                > client.send_unreliable_channel.max_memory_usage_bytes)
          => /\ client'.connection_status = client.connection_status
             /\ client'.send_unreliable_channel = client.send_unreliable_channel]_vars

\* a reliable send_message was refused and the connection is disconnected for it
C33_Witness ==
    /\ ret.op = "send_message"
    /\ ret.channel_id = 1
    /\ client.connection_status = Disconnected("SendChannelError", 1)
    /\ client.send_reliable_channel.memory_usage_bytes + ret.message.len
         > client.send_reliable_channel.max_memory_usage_bytes

\* a Data packet arrives from an address that has no slot and whose pending
\* entry is in state PendingResponse
PendingResponseGetsData ==
    /\ ret'.op = "process_packet"
    /\ ret'.packet.kind = "Data"
    /\ \A i \in OccupiedSlots(server.clients) : server.clients[i][1].addr # ret'.addr
    /\ ret'.addr \in DOMAIN server.pending_clients
    /\ server.pending_clients[ret'.addr].state = "PendingResponse"

\* the header of the auth preamble, as the server tests it
PreambleHeaderOk(payload) ==
    /\ payload.len >= 17
    /\ payload.channel_id = 0
    /\ payload.messages_len = 1
    /\ payload.message_type = 0

\* the rejection: InvalidPacketType, nothing sent, no validation task, and the
\* pending entry gone
RejectedSilently ==
    /\ ~panicked'
    /\ ret'.err = "InvalidPacketType"
    /\ ret'.res = SNone
    /\ ret'.addr \notin DOMAIN server'.pending_clients
    /\ ret'.addr \notin DOMAIN validators'

\* C34: a Data payload from a PendingResponse address that is not a well-formed
\* auth preamble, whatever its length, is rejected with InvalidPacketType, with
\* no validation task, no reply, and the pending entry removed.
C34_MalformedPreamble ==
    [][(PendingResponseGetsData /\ ~PreambleHeaderOk(ret'.packet.payload))
       => RejectedSilently]_vars

\* what the code does: the rejection is as stated for the payloads of six
\* bytes or more
C34_RejectedFromSixBytes ==
    [][(/\ PendingResponseGetsData
        /\ ~PreambleHeaderOk(ret'.packet.payload)
        /\ ret'.packet.payload.len >= 6)
       => RejectedSilently]_vars

\* a payload shorter than six bytes stopped the server
C34_ShortPayloadPanics ==
    /\ panicked
    /\ ret.op = "process_packet"
    /\ ret.packet.kind = "Data"
    /\ ret.packet.payload.len < 6

----------------------------------------------------------------------------
(* A transport server with fewer slots than clients asking for one: every   *)
(* address runs the handshake with the client id of its own                  *)

FullMaxClients == 1

FullClients == {<<"a1", 1>>, <<"a2", 2>>, <<"a3", 3>>}

\* the limit is lowered below the number of slots, put back or raised above it
FullLimitSteps == {-1, 0, 1}

FullInit ==
    /\ overflow_checks = FALSE
    /\ panicked = NewPanics(FullMaxClients)
    /\ sc = SendChannelReliable_new(1, ResendTime, SendMaxMemory)
    /\ rc = ReceiveChannelReliable_new(RecvMaxMemory)
    /\ now = 0
    /\ net = {}
    /\ sent_log = <<>>
    /\ recv_log = <<>>
    /\ ret = NoCall
    /\ client = NoClient
    /\ server = TransportServer_new(0, FullMaxClients)
    /\ validators = NoValidators
    /\ transport = NoTransport
    /\ uc = NoChannel
    /\ denaria = NoWorkers
    /\ pc = NoThreads
    /\ hist = NoHistory

FullNext ==
    \/ \E c \in FullClients :
          \E packet \in {TConnectionRequest(1, c[2]), TData(c[2], AuthPayload("p01"))} :
             SrvProcessPacket(c[1], packet)
    \/ \E c \in FullClients : ValidatorSucceeds(c[1])
    \/ \E c \in FullClients : SrvDisconnect(c[2])
    \/ \E max_clients \in SlotLimits(server, FullLimitSteps) :
          SrvSetMaxClients(max_clients)

SpecFull == FullInit /\ [][FullNext]_vars

\* a packet arrives from an address that holds no slot
ArrivesWithoutSlot ==
    /\ ret'.op = "process_packet"
    /\ find_client_mut_by_addr(server.clients, ret'.addr) = None

\* self.clients.iter().position(|c| c.is_none()) is None
AllSlotsOccupied == FreeSlot(server.clients) = None

\* self.clients.iter().flatten().count() >= self.max_clients
SlotLimitReached == Cardinality(OccupiedSlots(server.clients)) >= server.max_clients

\* the packet is a ConnectionRequest of a client
ClientRequestArrives ==
    /\ ArrivesWithoutSlot
    /\ ret'.packet.kind = "ConnectionRequest"
    /\ ret'.packet.connection_side_id = 1

\* the packet is the Data of a pending client whose validation succeeded
AuthenticatedDataArrives ==
    /\ ArrivesWithoutSlot
    /\ ret'.packet.kind = "Data"
    /\ ret'.addr \in DOMAIN server.pending_clients
    /\ server.pending_clients[ret'.addr].state = "Authenticating"
    /\ IsAuthenticated(server.pending_clients[ret'.addr])

\* the client id of the packet is in no slot
IdWithoutSlot ==
    find_client_slot_by_id(server.clients, ret'.packet.client_identifier) = None

\* the pending table has room for the address
PendingRoom == ~PendingTableFull(server, ret'.addr)

\* C35 as stated: with all slots occupied, a ConnectionRequest and the Data of
\* an authenticated Authenticating client both end with no pending entry for
\* the address and no datagram sent back.
C35_FullTableSilent ==
    [][(AllSlotsOccupied /\ (ClientRequestArrives \/ AuthenticatedDataArrives))
       => /\ ret'.res = SNone
          /\ ret'.addr \notin DOMAIN server'.pending_clients
          /\ server'.clients = server.clients]_vars

\* C35, amended: a ConnectionRequest for a client id that is in no slot,
\* arriving while the number of occupied slots has reached max_clients, leaves
\* no pending entry for the address and is not answered; arriving while all
\* slots are occupied but max_clients, raised by set_max_clients, is above their
\* number, it gets a pending entry and the server's ConnectionRequest as answer.
\* The Data of an authenticated Authenticating client whose client id is in no
\* slot, finding no free slot, removes the pending entry and is answered with a
\* Disconnect packet carrying that client id. No slot changes in any of these.
C35_FullTableDrops ==
    [][/\ (ClientRequestArrives /\ IdWithoutSlot /\ SlotLimitReached)
          => /\ ret'.res = SNone
             /\ ret'.addr \notin DOMAIN server'.pending_clients
             /\ server'.clients = server.clients
       /\ (/\ ClientRequestArrives /\ IdWithoutSlot /\ PendingRoom
           /\ AllSlotsOccupied /\ ~SlotLimitReached)
          => /\ ret'.res = PacketToSend(
                               ret'.addr,
                               TConnectionRequest(2, ret'.packet.client_identifier))
             /\ ret'.addr \in DOMAIN server'.pending_clients
             /\ server'.clients = server.clients
       /\ (AuthenticatedDataArrives /\ IdWithoutSlot /\ AllSlotsOccupied)
          => /\ ret'.res = PacketToSend(ret'.addr,
                                        TDisconnect(ret'.packet.client_identifier))
             /\ ret'.addr \notin DOMAIN server'.pending_clients
             /\ server'.clients = server.clients]_vars

\* an authenticated client found the only slot taken, was answered with
\* Disconnect and lost its pending entry
C35_Witness ==
    /\ ret.op = "process_packet"
    /\ ret.packet.kind = "Data"
    /\ ret.res = PacketToSend(ret.addr, TDisconnect(ret.packet.client_identifier))
    /\ ret.addr \notin DOMAIN server.pending_clients
    /\ FreeSlot(server.clients) = None

----------------------------------------------------------------------------
(* Sessions and empty packets *)

\* the address of the datagram if it is a CreateSession datagram
SessionRequesters(datagram) ==
    IF datagram.packet.kind = "CreateSession" THEN {datagram.addr} ELSE {}

\* C36: an update whose CreateSession datagrams all come from addresses that
\* hold no slot, having completed no authentication, changes neither the
\* session registry nor the player -> session map, and spawns no worker.
C36_SessionsNeedAuth ==
    [][(/\ Received
        /\ \A addr \in SessionRequesters(ret'.datagram) :
              find_client_mut_by_addr(server.clients, addr) = None)
       => /\ transport'.session_to_denaria_server_tx
               = transport.session_to_denaria_server_tx
          /\ transport'.player_id_session_map = transport.player_id_session_map
          /\ Len(transport'.channels) = Len(transport.channels)]_vars

\* a session exists that an address without any handshake created
C36_SessionCreated ==
    /\ ret.op = "recv_from"
    /\ "datagram" \in DOMAIN ret
    /\ SessionRequesters(ret.datagram) = {"a3"}
    /\ "p01" \in DOMAIN transport.player_id_session_map
    /\ server.pending_clients = EmptyMap
    /\ OccupiedSlots(server.clients) = {}

\* the packets of a call that carry no message
EmptyPackets(packets) == {i \in 1..Len(packets) : packets[i].messages = <<>>}

\* C37: no packet of a send channel has an empty message list, and the
\* reliable channel advances its sequence id only by the packets that carry
\* messages, whatever the queue holds.
C37_NoEmptyPacket ==
    [][/\ (ret'.op = "get_packets_to_send" /\ ~ret'.panic)
          => /\ EmptyPackets(ret'.packets) = {}
             /\ sc'.next_package_sequence_id
                  = (sc.next_package_sequence_id + Len(ret'.packets)) % U16
       /\ ret'.op = "unreliable_get_packets_to_send"
          => EmptyPackets(ret'.packets) = {}]_vars

\* what the code does: the packets are not empty while every queued message
\* fits a packet
C37_NoEmptyPacketUnderCap ==
    [][/\ (/\ ret'.op = "get_packets_to_send"
           /\ ~ret'.panic
           /\ \A id \in DOMAIN sc.unacked_messages :
                 ReliableSize(<<id, sc.unacked_messages[id].message>>)
                    <= MAX_MESSAGES_LENGTH)
          => EmptyPackets(ret'.packets) = {}
       /\ (/\ ret'.op = "unreliable_get_packets_to_send"
           /\ \A i \in 1..Len(uc.unreliable_messages) :
                 UnreliableSize(uc.unreliable_messages[i]) <= MAX_MESSAGES_LENGTH)
          => EmptyPackets(ret'.packets) = {}]_vars

\* the reliable channel returned an empty packet under sequence id 0, ahead of
\* the packet of a message larger than a packet
C37_EmptyReliablePacket ==
    /\ ret.op = "get_packets_to_send"
    /\ Len(ret.packets) = 2
    /\ ret.packets[1].messages = <<>>
    /\ ret.packets[1].sequence_id = 0
    /\ sc.next_package_sequence_id = 2

\* the unreliable channel returned an empty packet
C37_EmptyUnreliablePacket ==
    /\ ret.op = "unreliable_get_packets_to_send"
    /\ EmptyPackets(ret.packets) # {}

\* the senders of the registered sessions
SessionSenders(t) ==
    {t.session_to_denaria_server_tx[id] : id \in DOMAIN t.session_to_denaria_server_tx}

\* the clients of the slot table
Slotted(s) ==
    {s.clients[i][1].client_id : i \in {j \in DOMAIN s.clients : s.clients[j] # None}}

\* the datagram is a Data datagram from the address of a client that holds
\* a slot before the turn
PayloadOfSlotted(datagram) ==
    /\ datagram.packet.kind = "Data"
    /\ find_client_mut_by_addr(server.clients, datagram.addr) # None

\* C39: every client of the slot table has an entry in the client_id -> sender
\* map that points at a registered session, and every Payload reported for a
\* slotted client reaches a worker.
C39_SlottedHaveWorker ==
    /\ [](\A client_id \in Slotted(server) :
             /\ client_id \in DOMAIN transport.client_id_to_server_tx_map
             /\ transport.client_id_to_server_tx_map[client_id]
                   \in SessionSenders(transport))
    /\ [][(Received /\ PayloadOfSlotted(ret'.datagram))
            => \E sender \in 1..Len(transport.channels) :
                  \E n \in 1..Len(Appended(sender)) :
                     Appended(sender)[n].kind = "Payload"]_vars

\* a client holds a slot and no worker knows it
C39_SlotWithoutWorker ==
    /\ ret.op = "recv_from"
    /\ 1 \in Slotted(server)
    /\ 1 \notin DOMAIN transport.client_id_to_server_tx_map
    /\ transport.session_to_denaria_server_tx = EmptyMap

\* the part that holds: a Payload of a client that a worker knows reaches
\* that worker
C39_KnownPayloadForwarded ==
    [][(/\ Received
        /\ PayloadOfSlotted(ret'.datagram)
        /\ server.clients[find_client_mut_by_addr(
                              server.clients,
                              ret'.datagram.addr)[1]][1].client_id
              \in DOMAIN transport.client_id_to_server_tx_map)
          => \E sender \in 1..Len(transport.channels) :
                \E n \in 1..Len(Appended(sender)) :
                   Appended(sender)[n].kind = "Payload"]_vars

\* a Payload of a slotted client was dropped: the application payload of a
\* client that holds a slot went to no worker, none existing
C39_PayloadDropped ==
    /\ ret.op = "recv_from"
    /\ "datagram" \in DOMAIN ret
    /\ ret.datagram = Datagram("a1", TData(1, AppPayload))
    /\ 1 \in Slotted(server)
    /\ transport.channels = <<>>

----------------------------------------------------------------------------
(* The session workers: a DenariaServer at the far end of each channel of   *)
(* the dispatcher, with the connections of its clients                      *)

WkMaxEvents == 1      \* ServerEvents waiting in one worker
WkMaxSessions == 1    \* sessions created in a run with the workers
WkMaxQueue == 1       \* messages waiting in one channel, in a run with the workers

\* the bytes of a Data payload with what the transport server reads in them:
\* bytes[0], bytes[1], bytes[5], and the strings of an auth preamble
FramePayload(b, player_id, utf8) ==
    [len |-> Len(b), channel_id |-> b[1], messages_len |-> b[2],
     message_type |-> b[6], player_id |-> player_id, utf8 |-> utf8, bytes |-> b]

\* an auth preamble of 38 bytes (the player id p01 padded to 16 bytes, then a
\* ticket of 16 bytes), two unreliable messages in the layout of packet.rs and
\* a frame of an unknown channel
AuthFrame ==
    FramePayload(<<0, 1, 0, 0, 0, 0, 112, 48, 49>> \o [k \in 1..13 |-> 0]
                    \o [k \in 1..16 |-> 2],
                 "p01", "ok")
GoodFrame == FramePayload(<<0, 0, 2, 1, 7, 2, 8, 9>>, "", "")
BadFrame == FramePayload(<<2, 0, 0, 0, 0, 0>>, "", "")

\* mask >> i on a u32
RECURSIVE ShiftRight(_, _)
ShiftRight(mask, i) == IF i = 0 THEN mask ELSE ShiftRight(mask \div 2, i - 1)

\* the positions of the bits set in a u32
MaskBits(mask) == {i \in 0..31 : ShiftRight(mask, i) % 2 = 1}

\* the Packet of connection.rs for what Packet::from_bytes returned
AsPacket(r) ==
    IF r.kind = "Err" THEN r
    ELSE IF r.kind = "SmallUnreliable"
    THEN SmallUnreliable(0, [k \in 1..Len(r.messages) |->
                               [data |-> r.messages[k], len |-> Len(r.messages[k])]])
    ELSE IF r.kind = "SmallReliable"
    THEN [SmallReliable(1, r.fields.sequence_id,
                        [k \in 1..Len(r.messages) |->
                           <<r.messages[k][1],
                             [data |-> r.messages[k][2],
                              len |-> Len(r.messages[k][2])]>>])
            EXCEPT !.packet_process_time = r.fields.packet_process_time,
                   !.acked_seq_id = r.fields.acked_seq_id,
                   !.acked_mask = MaskBits(r.fields.acked_mask)]
    ELSE [Ack(r.fields.packet_process_time, r.fields.acked_seq_id,
              MaskBits(r.fields.acked_mask))
            EXCEPT !.sequence_id = r.fields.sequence_id,
                   !.end_posfix = r.end_posfix]

DenariaServer_new ==
    [connections |-> EmptyMap, player_connection_map |-> EmptyMap, events |-> <<>>]

new_from_server ==
    UnityClient_new(ConnBytesPerTick, ConnUnreliableMemory, ResendTime,
                    ConnReliableMemory)

add_connection(d, client_id, player_id) ==
    IF client_id \in DOMAIN d.connections THEN d
    ELSE [d EXCEPT !.connections =
                       Insert(@, client_id,
                              set_connected(new_from_server, player_id)),
                   !.player_connection_map = Insert(@, player_id, client_id),
                   !.events = Append(@, [kind |-> "ClientConnected",
                                         client_id |-> client_id])]

remove_connection(d, client_id) ==
    IF client_id \notin DOMAIN d.connections THEN d
    ELSE [d EXCEPT
            !.connections = Remove(@, client_id),
            !.events =
                Append(@, [kind |-> "ClientDisconnected", client_id |-> client_id,
                           player_id |-> d.connections[client_id].player_id,
                           reason |->
                               IF is_disconnected(d.connections[client_id])
                               THEN d.connections[client_id].connection_status.reason
                               ELSE "Transport"])]

DenariaServer_disconnect(d, client_id) ==
    IF client_id \in DOMAIN d.connections
    THEN [d EXCEPT !.connections[client_id] =
                       disconnect_with_reason(@, "DisconnectedByServer", 0)]
    ELSE d

\* for connection in self.connections.values_mut()
DenariaServer_disconnect_all(d) ==
    [d EXCEPT !.connections =
                  [client_id \in DOMAIN @ |->
                     disconnect_with_reason(@[client_id], "DisconnectedByServer", 0)]]

\* broadcast_message_except, and broadcast_message with except None: returns
\* [d, panic]
broadcast_message_except(d, except, channel_id, message) ==
    [d |-> [d EXCEPT !.connections =
                  [client_id \in DOMAIN @ |->
                     IF except = Some(client_id) THEN @[client_id]
                     ELSE UnityClient_send_message(@[client_id], channel_id,
                                                   message).c]],
     panic |-> \E client_id \in DOMAIN d.connections :
                  /\ except # Some(client_id)
                  /\ UnityClient_send_message(d.connections[client_id], channel_id,
                                              message).panic]

\* returns [d, panic]
DenariaServer_send_message(d, client_id, channel_id, message) ==
    IF client_id \notin DOMAIN d.connections THEN [d |-> d, panic |-> FALSE]
    ELSE LET r == UnityClient_send_message(d.connections[client_id], channel_id,
                                           message)
         IN [d |-> [d EXCEPT !.connections[client_id] = r.c], panic |-> r.panic]

\* returns [d, res, panic], res being the message with the player id
DenariaServer_receive_message(d, client_id, channel_id) ==
    IF client_id \notin DOMAIN d.connections
    THEN [d |-> d, res |-> None, panic |-> FALSE]
    ELSE LET r == UnityClient_receive_message(d.connections[client_id], channel_id)
         IN [d |-> [d EXCEPT !.connections[client_id] = r.c],
             res |-> IF r.res = None THEN None
                     ELSE Some(<<r.res[1], r.c.player_id>>),
             panic |-> r.panic]

\* for connection in self.connections.values_mut() { connection.update(duration) }
DenariaServer_update(d, duration) ==
    [d EXCEPT !.connections =
                  [client_id \in DOMAIN @ |-> update(@[client_id], duration)]]

\* a serialized packet as the dispatcher takes it: bytes it does not read,
\* and their number
AsPayload(packet) == [data |-> packet, len |-> SerializedLen(packet)]

\* returns [d, res, packets, panic]
DenariaServer_get_packets_to_send(d, client_id, oc, elapsed) ==
    IF client_id \notin DOMAIN d.connections
    THEN [d |-> d, res |-> "ClientNotFound", packets |-> <<>>, panic |-> FALSE]
    ELSE LET r == UnityClient_get_packets_to_send(d.connections[client_id], oc,
                                                  elapsed)
         IN [d |-> [d EXCEPT !.connections[client_id] = r.c], res |-> "Ok",
             packets |-> [k \in 1..Len(r.packets) |-> AsPayload(r.packets[k])],
             panic |-> r.panic]

\* returns [d, panic]
process_packet_from(d, payload, client_id) ==
    IF client_id \notin DOMAIN d.connections THEN [d |-> d, panic |-> FALSE]
    ELSE LET r == process_packet(d.connections[client_id],
                                 AsPacket(Packet_from_bytes(payload.bytes)))
         IN [d |-> [d EXCEPT !.connections[client_id] = r.c], panic |-> r.panic]

\* one turn of the while loop over from_transport_server_rx.try_recv():
\* Ok(message); returns [d, panic]
process_server_transport_message(d, message) ==
    IF message.kind = "ClientConnected"
    THEN [d |-> add_connection(d, message.client_id, message.player_id),
          panic |-> FALSE]
    ELSE IF message.kind = "ClientDisconnected"
    THEN [d |-> remove_connection(d, message.client_id), panic |-> FALSE]
    ELSE process_packet_from(d, message.payload, message.client_id)

\* what recv_from gives in one turn, in the runs with the workers
WkDatagrams ==
    {Datagram("a1", TConnectionRequest(1, 1)),
     Datagram("a1", TData(1, AuthFrame)),
     Datagram("a1", TData(1, GoodFrame)),
     Datagram("a1", TData(1, BadFrame)),
     Datagram("a1", TDisconnect(1)),
     Datagram("a3", TCreateSession(0, 1, <<"p01">>))}

\* a worker is spawned with its session; before that its DenariaServer is the
\* one it will start from
WkInit ==
    /\ overflow_checks = FALSE
    /\ panicked = NewPanics(SrvMaxClients)
    /\ sc = SendChannelReliable_new(1, ResendTime, SendMaxMemory)
    /\ rc = ReceiveChannelReliable_new(RecvMaxMemory)
    /\ now = 0
    /\ net = {}
    /\ sent_log = <<>>
    /\ recv_log = <<>>
    /\ ret = NoCall
    /\ client = NoClient
    /\ server = TransportServer_new(0, SrvMaxClients)
    /\ validators = NoValidators
    /\ transport = ServerTransport_new
    /\ uc = NoChannel
    /\ denaria = [k \in 1..WkMaxSessions |-> DenariaServer_new]
    /\ pc = [dispatcher |-> Idle, worker |-> [k \in 1..WkMaxSessions |-> Idle]]
    /\ hist = NoHistory

wkUnchanged ==
    <<overflow_checks, sc, rc, now, net, sent_log, recv_log, client, uc,
      server, validators, hist>>

\* one turn of the loop of DenariaServer::process_server_transport_messages
\* in the worker of a channel: try_recv gives a message; the first turn is
\* the one that begins the call. A worker that holds the packets
\* get_packets_to_send returned, not yet handed to
\* send_packets_to_server_transport, keeps them through the call.
ProcessServerTransportMessage(sender) ==
    /\ ~panicked
    /\ sender \in 1..Len(transport.channels)
    /\ transport.channels[sender] # <<>>
    /\ LET r == process_server_transport_message(denaria[sender],
                                                 Head(transport.channels[sender]))
       IN /\ Len(r.d.events) <= WkMaxEvents
          /\ denaria' = [denaria EXCEPT ![sender] = r.d]
          /\ panicked' = r.panic
    /\ transport' = [transport EXCEPT !.channels[sender] = Tail(@)]
    /\ pc' = [pc EXCEPT !.worker[sender].at = "try_recv"]
    /\ ret' = [op |-> "process_server_transport_message", sender |-> sender,
               message |-> Head(transport.channels[sender])]
    /\ UNCHANGED wkUnchanged

\* the loop ends: try_recv gives no message; the worker is back where the
\* call was made, with the packets it held
ProcessServerTransportMessages(sender) ==
    /\ ~panicked
    /\ pc.worker[sender].at = "try_recv"
    /\ sender \in 1..Len(transport.channels) => transport.channels[sender] = <<>>
    /\ pc' = [pc EXCEPT !.worker[sender].at =
                 IF "packets" \in DOMAIN pc.worker[sender]
                 THEN "send_packets" ELSE Idle.at]
    /\ ret' = [op |-> "process_server_transport_messages", sender |-> sender]
    /\ UNCHANGED <<panicked, transport, denaria, wkUnchanged>>

\* DenariaServer::disconnect in a worker
WorkerDisconnect(sender, client_id) ==
    /\ ~panicked
    /\ pc.worker[sender] = Idle
    /\ sender \in 1..Len(transport.channels)
    /\ client_id \in DOMAIN denaria[sender].connections
    /\ denaria' = [denaria EXCEPT ![sender] = DenariaServer_disconnect(@, client_id)]
    /\ ret' = [op |-> "disconnect", sender |-> sender, client_id |-> client_id]
    /\ UNCHANGED <<panicked, transport, pc, wkUnchanged>>

\* DenariaServer::disconnect_all in a worker
WorkerDisconnectAll(sender) ==
    /\ ~panicked
    /\ pc.worker[sender] = Idle
    /\ sender \in 1..Len(transport.channels)
    /\ denaria' = [denaria EXCEPT ![sender] = DenariaServer_disconnect_all(@)]
    /\ ret' = [op |-> "disconnect_all_connections", sender |-> sender]
    /\ UNCHANGED <<panicked, transport, pc, wkUnchanged>>

\* DenariaServer::update in a worker
WorkerUpdate(sender, duration) ==
    /\ ~panicked
    /\ pc.worker[sender] = Idle
    /\ sender \in 1..Len(transport.channels)
    /\ \A client_id \in DOMAIN denaria[sender].connections :
          denaria[sender].connections[client_id].current_time + duration
             <= ConnMaxTime
    /\ denaria' = [denaria EXCEPT ![sender] = DenariaServer_update(@, duration)]
    /\ ret' = [op |-> "update_connections", sender |-> sender,
               duration |-> duration]
    /\ UNCHANGED <<panicked, transport, pc, wkUnchanged>>

\* DenariaServer::send_message in a worker
WorkerSendMessage(sender, client_id, channel_id, message) ==
    /\ ~panicked
    /\ pc.worker[sender] = Idle
    /\ sender \in 1..Len(transport.channels)
    /\ LET r == DenariaServer_send_message(denaria[sender], client_id, channel_id,
                                           message)
       IN /\ denaria' = [denaria EXCEPT ![sender] = r.d]
          /\ panicked' = r.panic
    /\ ret' = [op |-> "send_message_to", sender |-> sender,
               client_id |-> client_id, channel_id |-> channel_id,
               message |-> message]
    /\ UNCHANGED <<transport, pc, wkUnchanged>>

\* DenariaServer::broadcast_message in a worker, and broadcast_message_except
\* where except names a client
WorkerBroadcastMessage(sender, except, channel_id, message) ==
    /\ ~panicked
    /\ pc.worker[sender] = Idle
    /\ sender \in 1..Len(transport.channels)
    /\ LET r == broadcast_message_except(denaria[sender], except, channel_id,
                                         message)
       IN /\ denaria' = [denaria EXCEPT ![sender] = r.d]
          /\ panicked' = r.panic
    /\ ret' = [op |-> "broadcast_message", sender |-> sender, except |-> except,
               channel_id |-> channel_id, message |-> message]
    /\ UNCHANGED <<transport, pc, wkUnchanged>>

\* DenariaServer::receive_message in a worker
WorkerReceiveMessage(sender, client_id, channel_id) ==
    /\ ~panicked
    /\ pc.worker[sender] = Idle
    /\ sender \in 1..Len(transport.channels)
    /\ LET r == DenariaServer_receive_message(denaria[sender], client_id,
                                              channel_id)
       IN /\ denaria' = [denaria EXCEPT ![sender] = r.d]
          /\ panicked' = r.panic
          /\ ret' = [op |-> "receive_message_from", sender |-> sender,
                     client_id |-> client_id, channel_id |-> channel_id,
                     res |-> r.res]
    /\ UNCHANGED <<transport, pc, wkUnchanged>>

\* DenariaServer::get_packets_to_send in a worker, as the system that sends
\* the packets calls it: what it returns is handed to
\* send_packets_to_server_transport next
WorkerGetPacketsToSend(sender, client_id, elapsed) ==
    /\ ~panicked
    /\ pc.worker[sender] = Idle
    /\ sender \in 1..Len(transport.channels)
    /\ LET r == DenariaServer_get_packets_to_send(denaria[sender], client_id,
                                                  overflow_checks, elapsed)
       IN /\ denaria' = [denaria EXCEPT ![sender] = r.d]
          /\ panicked' = r.panic
          /\ pc' = [pc EXCEPT !.worker[sender] =
                       IF r.res = "Ok" /\ ~r.panic
                       THEN [at |-> "send_packets", client_id |-> client_id,
                             packets |-> r.packets]
                       ELSE Idle]
          /\ ret' = [op |-> "get_packets_of", sender |-> sender,
                     client_id |-> client_id, res |-> r.res,
                     packets |-> r.packets]
    /\ UNCHANGED <<transport, wkUnchanged>>

\* DenariaServer::send_packets_to_server_transport in a worker, with the
\* packets get_packets_to_send returned. The channel has no capacity in the
\* code: the runs stop adding to it at WkMaxQueue waiting messages.
WorkerSendPackets(sender) ==
    /\ ~panicked
    /\ pc.worker[sender].at = "send_packets"
    /\ Len(transport.from_denaria_server) < WkMaxQueue
    /\ transport' = send_packets_to_server_transport(
                        transport, pc.worker[sender].client_id,
                        pc.worker[sender].packets)
    /\ pc' = [pc EXCEPT !.worker[sender] = Idle]
    /\ ret' = [op |-> "worker_send", client_id |-> pc.worker[sender].client_id,
               packets |-> pc.worker[sender].packets]
    /\ UNCHANGED <<panicked, denaria, wkUnchanged>>

\* DenariaServer::get_event in a worker
GetEvent(sender) ==
    /\ ~panicked
    /\ pc.worker[sender] = Idle
    /\ denaria[sender].events # <<>>
    /\ denaria' = [denaria EXCEPT ![sender].events = Tail(@)]
    /\ ret' = [op |-> "get_event", sender |-> sender,
               event |-> Head(denaria[sender].events)]
    /\ UNCHANGED <<panicked, transport, pc, wkUnchanged>>

\* the channels of the code have no capacity: a run with the workers holds
\* no more sessions and no more waiting messages than the bounds
WkWithinBounds(t) ==
    /\ Len(t.channels) <= WkMaxSessions
    /\ \A k \in 1..Len(t.channels) : Len(t.channels[k]) <= WkMaxQueue

\* a turn of the recv_from loop
WkRecvFrom ==
    \E datagram \in WkDatagrams :
       DspRecvFrom(datagram) /\ WkWithinBounds(transport')

\* a turn of the loop over clients_id
WkUpdateClient == DspUpdateClient /\ WkWithinBounds(transport')

WkProcess == \E sender \in 1..WkMaxSessions : ProcessServerTransportMessage(sender)

WkProcessed == \E sender \in 1..WkMaxSessions : ProcessServerTransportMessages(sender)

WkGetEvent == \E sender \in 1..WkMaxSessions : GetEvent(sender)

\* the message the application of a worker sends, and the channel it sends
\* it on: the unreliable one, whose messages reach the dispatcher
WkMessages == {[data |-> "b", len |-> 2]}
WkSendChannels == {0}

\* the calls of the application of a worker on its DenariaServer
WkApplication(sender) ==
    \/ WorkerDisconnect(sender, 1)
    \/ WorkerDisconnectAll(sender)
    \/ WorkerUpdate(sender, 1)
    \/ \E channel_id \in WkSendChannels, message \in WkMessages :
          \/ WorkerSendMessage(sender, 1, channel_id, message)
          \/ \E except \in {None, Some(1)} :
                WorkerBroadcastMessage(sender, except, channel_id, message)
    \/ WorkerReceiveMessage(sender, 1, 0)
    \/ WorkerGetPacketsToSend(sender, 1, 0)
    \/ WorkerSendPackets(sender)

WkNext ==
    \/ DspUpdateCall
    \/ WkRecvFrom
    \/ DspRecvError("WouldBlock")
    \/ WkUpdateClient
    \/ DspSendMessage
    \/ DspSendPackets("Empty")
    \/ ValidatorSucceeds("a1")
    \/ WkProcess
    \/ WkProcessed
    \/ \E sender \in 1..WkMaxSessions : WkApplication(sender)
    \/ WkGetEvent

\* a worker has messages of the dispatcher to take
WkProcessDue ==
    /\ ~panicked
    /\ \E sender \in 1..Len(transport.channels) : transport.channels[sender] # <<>>

\* the transport loop and the workers keep running, and a validator ends:
\* update is called again and again, which takes every call of it to return,
\* a worker takes the messages of the dispatcher wherever WkProcessDue holds
\* and its loop ends once the channel is empty. A step of update is possible
\* in every state that has not panicked and a step of a worker wherever
\* WkProcessDue holds and its events were taken, so that the conjuncts
\* written with []<> state the weak fairness of these steps with the
\* enabling condition written out.
SpecWorker ==
    /\ WkInit
    /\ [][WkNext]_vars
    /\ WF_vars(ValidatorSucceeds("a1"))
    /\ WF_vars(WkGetEvent)
    /\ WF_vars(WkProcessed)
    /\ ([]<>panicked \/ []<><<ret'.op = "transport_update">>_vars)
    /\ ([]<>~WkProcessDue
          \/ []<><<ret'.op = "process_server_transport_message">>_vars)

\* a worker holds a connection of client_id
Held(client_id) ==
    \E sender \in 1..WkMaxSessions : client_id \in DOMAIN denaria[sender].connections

\* a worker holds a Disconnected connection of client_id
HeldDisconnected(client_id) ==
    \E sender \in 1..WkMaxSessions :
       /\ client_id \in DOMAIN denaria[sender].connections
       /\ is_disconnected(denaria[sender].connections[client_id])

\* C40: a connection that became Disconnected in its worker is eventually
\* removed from the worker's table and the slot of its client_id is freed,
\* and the client_id can then get a Connected connection again.
C40_DisconnectedReleased ==
    HeldDisconnected(1) ~>
       (~Held(1) /\ find_client_slot_by_id(server.clients, 1) = None)

\* what the code guarantees: a connection leaves the table of its worker only
\* when the transport reported ClientDisconnected, and a worker's own
\* disconnect leaves the slot and the dispatcher as they were
C40_RemovedByTransportOnly ==
    [][/\ (Held(1) /\ ~Held(1)')
          => /\ ret'.op = "process_server_transport_message"
             /\ ret'.message = ToClientDisconnected(1)
       /\ (~HeldDisconnected(1) /\ HeldDisconnected(1)' /\ ~DispatcherStep)
          => /\ server' = server
             /\ transport'.from_denaria_server = transport.from_denaria_server
             /\ transport'.client_id_to_server_tx_map
                   = transport.client_id_to_server_tx_map]_vars

\* the connection is Disconnected in the worker and its client keeps the slot
C40_DisconnectedKeepsSlot ==
    /\ HeldDisconnected(1)
    /\ find_client_slot_by_id(server.clients, 1) # None
    /\ \A sender \in 1..Len(transport.channels) : transport.channels[sender] = <<>>

====
